---- MODULE Spec2Model ----
(***************************************************************************)
(* HPS command-line client (src/index.py): the client core, its socket     *)
(* event handlers (the reactor, one asyncio loop thread), the command      *)
(* handlers that run on caller threads (the prompt and the controller      *)
(* command workers) and the proof-of-work solver thread.                   *)
(*                                                                         *)
(* The server is the environment: while the socket is connected it may     *)
(* deliver any event of the protocol, with any payload, at any time the    *)
(* loop is free to dispatch it.                                            *)
(***************************************************************************)
EXTENDS Integers, Sequences, FiniteSets, TLC

(* ------------------------------ bounds -------------------------------- *)
NumThreads == 2
NumServers == 1
NumKeys == 2
NumUsers == 2
NumPayloads == 2
NumChallenges == 2
MaxOrphans == 1
MaxRows == 2
MaxPowSolved == 3
MaxCommands == 2
MaxLines == 2
MaxHistory == 2
MaxDomainLen == 5
MaxNonce == 2

(* ------------------------- program constants --------------------------- *)
MinReportReputation == 20
DefaultReputation == 100
\* 100 * 1024 * 1024
max_upload_size == 104857600

Threads == 1..NumThreads
Servers == 1..NumServers
Keys == 1..NumKeys
Users == 1..NumUsers
Payloads == 1..NumPayloads
Challenges == 1..NumChallenges

\* 0 stands for Python's None in the integer-valued fields
None == 0

\* the PoW action types, and the verbs that stash a payload for phase 3
Actions == {"login", "upload", "dns", "report"}
RunAsyncVerbs == {"upload", "dns", "report"}

\* reputations the server may announce, around the report threshold
Reputations == {MinReportReputation - 1, MinReportReputation}

\* a missing pending_<action> attribute
NoCtx == <<>>

\* hashlib.sha256(content).hexdigest(): injective on the contents of the
\* model, and no digest is itself a content
Sha256(b) == NumPayloads + b
Hashes == {Sha256(b) : b \in Payloads}

\* commands the controller may write into the controller file
Commands == 1..MaxCommands

\* files a user may name in upload: the payloads, all within the size limit,
\* and one file past it
Files == 1..(NumPayloads + 1)

\* len(content) of file p: file NumPayloads has exactly max_upload_size bytes
len(p) == max_upload_size + p - NumPayloads

\* characters of a domain argument: "a" stands for a lowercase letter or a
\* digit, "A" for an uppercase letter
DomainChars == {"a", "A", "-", ".", "_"}
LabelChars == {"a", "-"}
Domains == UNION {[1..k -> DomainChars] : k \in 1..MaxDomainLen}

\* nonces solve_thread can reach before its time limit, and the digests
\* SHA-256 can give them: DigestLen bytes each, of these byte values
Nonces == 0..MaxNonce
DigestLen == 2
Bytes == {0, 1, 255}
Digests == [1..DigestLen -> Bytes]
TargetBits == {0, 1, 7, 8, 9, 8 * DigestLen}

\* self.nonce_solution = None
NotMined == 0 - 1

VARIABLES
    connected,              \* self.connected
    sio_connected,          \* self.sio.connected, the socket's own state
    current_user,           \* self.current_user (None == 0)
    current_server,         \* self.current_server (None == 0)
    reputation,             \* self.reputation
    pending,                \* pending_login / _upload / _dns / _report
    event,                  \* auth_event / upload_event / dns_event / report_event
    result,                 \* auth_result / upload_result / dns_result / report_result
    server_public_keys,     \* self.server_public_keys
    client_auth_challenge,  \* self.client_auth_challenge is set
    banned,                 \* self.banned_until is set
    reports,                \* rows of cli_reports per (reporter, content_hash)
    is_solving,             \* pow_solver.is_solving
    solution_found,         \* pow_solver.solution_found (threading.Event)
    nonce_solution,         \* the challenge pow_solver.nonce_solution solves
    solver,                 \* the solve_thread: its position and its challenge
    reactor,                \* the loop thread: idle, or blocked in pow_challenge
    orphans,                \* request_pow_challenge coroutines left on the loop
    reconnecting,           \* the reconnect worker is alive
    pc, verb, args,         \* caller threads: position, verb and server argument
    emitted,                \* events the last step emitted on the socket
    conn,                   \* history of the current connection
    pow_solved,             \* stats_data['pow_solved']
    dropped,                \* the transport is gone, disconnect() has not run yet
    invoked,                \* (reporter, content_hash) of the report invocations begun
    content_cache,          \* cli_content_cache: bytes of <hash>.dat per content_hash
    content_event,          \* self.content_event
    content_result,         \* self.content_result
    controller_file,        \* content of the controller file
    modified,               \* its mtime is newer than monitor.last_modified
    monitor,                \* the _monitor_loop thread: position, command, log id
    command_ids,            \* command ids (uuid4) allocated so far
    workers,                \* _execute_command_with_log threads started
    proc,                   \* the interactive instance: where its main thread is
    pid_file,               \* content of controller.pid
    logs,                   \* the log file of each command id
    exec,                   \* each _execute_command_with_log thread: position, result
    history,                \* rows of cli_history, oldest first
    sender,                 \* a send_command call: position, log path, return value
    invocations,            \* history: command invocations so far
    domain,                 \* the domain argument given to dns-reg
    digests,                \* SHA-256(challenge || uint64_be(n)) for each nonce n
    target_bits,            \* the target_bits of the challenge being solved
    nonce,                  \* solve_thread: the nonce it is about to try
    mined,                  \* solve_thread: the nonce it reported
    miner,                  \* solve_thread under stop_solving: position, nonces since
    is_running,             \* self.is_running
    reconnect_thread,       \* the reconnect workers: where each one is
    reconnect_queue,        \* _reconnect coroutines waiting on the loop
    requests,               \* request_content messages the server has not answered
    connection_state        \* the connection_state argument of each caller's dns-res

vars == <<connected, sio_connected, current_user, current_server, reputation,
          pending, event, result, server_public_keys, client_auth_challenge,
          banned, reports, is_solving, solution_found, nonce_solution, solver,
          reactor, orphans, reconnecting, pc, verb, args, emitted, conn,
          pow_solved, dropped, invoked, content_cache, content_event,
          content_result, controller_file, modified, monitor, command_ids,
          workers, proc, pid_file, logs, exec, history, sender, invocations,
          domain, digests, target_bits, nonce, mined, miner, is_running,
          reconnect_thread, reconnect_queue, requests, connection_state>>

coreVars == <<connected, sio_connected, current_user, current_server, reputation>>
callVars == <<pending, event, result>>
authVars == <<server_public_keys, client_auth_challenge, banned>>
powVars == <<is_solving, solution_found, nonce_solution, solver>>
threadVars == <<pc, verb, args>>
contentVars == <<content_cache, content_event, content_result>>
ctlVars == <<controller_file, modified, monitor, command_ids, workers>>
instVars == <<proc, pid_file, logs, exec, history, sender, invocations>>
mineVars == <<digests, target_bits, nonce, mined, miner>>
reconVars == <<is_running, reconnect_thread, reconnect_queue>>
inputVars == <<domain, mineVars, reconVars, requests, connection_state>>
restVars == <<pow_solved, dropped, invoked, contentVars, ctlVars, instVars,
              inputVars>>

\* a connection on which nothing has happened yet
FreshConn == [verified |-> FALSE, auth_ok |-> FALSE, sig_failed |-> FALSE,
              requested |-> {}]

IdleReactor == [at |-> "idle", action |-> "login", challenge |-> None,
                solicited |-> FALSE]
IdleSolver == [at |-> "none", challenge |-> None]

\* content_result = None
NoContent == [kind |-> "none", content |-> None, content_hash |-> None,
              integrity_ok |-> FALSE]

\* the controller file: missing, or its content: empty, command n, or the
\* path <logs_dir>/<command id n>.log
File(kind, n) == [kind |-> kind, n |-> n]
IdleMonitor == [at |-> "poll", content |-> File("empty", None), id |-> None]

\* a log file: absent from the logs directory, or its lines
Log(lines) == [exists |-> TRUE, lines |-> lines]
NoLog == [exists |-> FALSE, lines |-> <<>>]

\* an _execute_command_with_log thread that has not run yet; result is what
\* _execute_controller_command returns, did tells what the handler achieved
NewExec == [at |-> "new", success |-> FALSE, output |-> 0, did |-> "none"]

\* no send_command call under way
NoReturn == [ok |-> FALSE, message |-> "none"]
IdleSender == [at |-> "idle", log |-> None, ret |-> NoReturn]

\* ControllerFileMonitor.__init__ on a profile without leftovers: the
\* directories exist and cleanup_old_files found nothing
InitInstance ==
    /\ proc = "constructed"
    /\ pid_file = "missing"
    /\ logs = [i \in Commands |-> NoLog]
    /\ exec = [i \in Commands |-> NewExec]
    /\ history = <<>>
    /\ sender = IdleSender
    /\ invocations = 0

\* no solve_thread exists
IdleMiner == [at |-> "none", stopped |-> FALSE, since |-> 0]

\* CLIPowSolver.__init__: nothing is being solved
InitMiner ==
    /\ digests = [n \in Nonces |-> [k \in 1..DigestLen |-> 255]]
    /\ target_bits = 0
    /\ nonce = 0
    /\ mined = NotMined
    /\ miner = IdleMiner

\* handle_dns_resolve(args): connection_state=None
NoState == [connected |-> FALSE, current_server |-> None, current_user |-> None]

\* reconnect threads that can exist side by side
NumReconnects == 2
Reconnects == 1..NumReconnects

\* HPSClientCore.__init__: is_running = True, reconnect_thread = None
InitRecon ==
    /\ is_running = TRUE
    /\ reconnect_thread = [w \in Reconnects |-> "none"]
    /\ reconnect_queue = 0

\* what __init__ leaves in the fields outside the session and the solver
InitOther ==
    /\ InitInstance
    /\ dropped = FALSE
    /\ invoked = {}
    /\ content_cache = [h \in Hashes |-> None]
    /\ content_event = FALSE
    /\ content_result = NoContent
    /\ controller_file = File("missing", None)
    /\ modified = FALSE
    /\ monitor = IdleMonitor
    /\ command_ids = 0
    /\ workers = {}

\* the fields outside the session; the domain a user gives to dns-reg is a
\* well-formed one
InitRest ==
    /\ InitOther
    /\ InitMiner
    /\ InitRecon
    /\ requests = {}
    /\ connection_state = [t \in Threads |-> NoState]
    /\ domain = <<"a">>

\* HPSClientCore.__init__ on a fresh profile: the session fields
InitSession ==
    /\ connected = FALSE
    /\ sio_connected = FALSE
    /\ current_user = None
    /\ current_server = None
    /\ reputation = DefaultReputation
    /\ pending = [a \in Actions |-> NoCtx]
    /\ event = [a \in Actions |-> FALSE]
    /\ result = [a \in Actions |-> "none"]
    /\ server_public_keys = [s \in Servers |-> None]
    /\ client_auth_challenge = FALSE
    /\ banned = FALSE
    /\ reports = [r \in (0..NumUsers) \X Payloads |-> 0]
    /\ is_solving = FALSE
    /\ solution_found = FALSE
    /\ nonce_solution = None
    /\ solver = IdleSolver
    /\ reactor = IdleReactor
    /\ orphans = [a \in RunAsyncVerbs |-> 0]
    /\ reconnecting = FALSE
    /\ pc = [t \in Threads |-> "idle"]
    /\ verb = [t \in Threads |-> "none"]
    /\ args = [t \in Threads |-> None]
    /\ emitted = {}
    /\ conn = FreshConn

Init ==
    /\ InitSession
    /\ pow_solved = 0
    /\ InitRest

(* ------------------------------ emitting ------------------------------- *)
\* an event put on the socket by sio.emit.  request_pow_challenge carries its
\* action type; a gated event carries the nonce (named by the challenge it
\* solves), the challenge that triggered it and whether a request for that
\* challenge had been emitted on this connection
Ev(name) == [name |-> name, action |-> "none", nonce |-> None,
             challenge |-> None, solicited |-> FALSE]

GatedEventOf(a) ==
    CASE a = "login" -> "authenticate"
      [] a = "upload" -> "publish_content"
      [] a = "dns" -> "register_dns"
      [] a = "report" -> "report_content"

GatedEv(a) == [name |-> GatedEventOf(a), action |-> a, nonce |-> nonce_solution,
               challenge |-> reactor.challenge, solicited |-> reactor.solicited]

Names(evs) == {e.name : e \in evs}

\* request_pow_challenge(action_type): what it emits; nothing while not
\* connected
request_pow_challenge(a) ==
    IF connected THEN {[Ev("request_pow_challenge") EXCEPT !.action = a]} ELSE {}

\* the connection history after the events evs went out
Noted(c, evs) ==
    [c EXCEPT !.requested =
        @ \cup {e.action : e \in {x \in evs : x.name = "request_pow_challenge"}}]

\* the connect() socket handler
connect ==
    /\ connected' = TRUE
    /\ emitted' = {Ev("request_server_auth_challenge")}
    /\ conn' = FreshConn

\* save_content_to_storage(content_hash, content): <content_hash>.dat is
\* written and its row replaced
save_content_to_storage(h, b) == [content_cache EXCEPT ![h] = b]

(* --------------------------- command handlers -------------------------- *)
\* the handler of caller t returns: the thread is free for its next command
Return(t) ==
    /\ pc' = [pc EXCEPT ![t] = "idle"]
    /\ verb' = [verb EXCEPT ![t] = "none"]
    /\ args' = [args EXCEPT ![t] = None]

\* handle_login up to the hand-over of _connect_and_login to the loop
HandleLogin(t, s) ==
    /\ pc[t] = "idle"
    /\ current_server' = s
    /\ pending' = [pending EXCEPT !["login"] = <<1>>]
    /\ pc' = [pc EXCEPT ![t] = "login_call"]
    /\ verb' = [verb EXCEPT ![t] = "login"]
    /\ args' = [args EXCEPT ![t] = s]
    /\ emitted' = {}
    /\ UNCHANGED <<connected, sio_connected, current_user, reputation, event, result,
                   authVars, reports, powVars, reactor, orphans, reconnecting, conn>>
    /\ UNCHANGED restVars

\* _connect_and_login on the loop, with _connect_to_server and the socket
\* handlers (disconnect of the old socket, connect of the new one) it triggers
CoConnectAndLogin(t, ok) ==
    /\ pc[t] = "login_call"
    /\ reactor.at = "idle"
    /\ current_server' = args[t]
    /\ pending' = [pending EXCEPT !["login"] = <<1>>]
    /\ reconnecting' = (reconnecting \/ sio_connected)
    /\ dropped' = FALSE
    /\ sio_connected' = ok
    /\ IF ok
       THEN /\ connect
            /\ event' = [event EXCEPT !["login"] = FALSE]
            /\ result' = [result EXCEPT !["login"] = "none"]
            /\ pc' = [pc EXCEPT ![t] = "login_wait"]
            /\ UNCHANGED <<verb, args>>
       ELSE /\ connected' = IF sio_connected THEN FALSE ELSE connected
            /\ emitted' = {}
            /\ conn' = conn
            /\ Return(t)
            /\ UNCHANGED <<event, result>>
    /\ UNCHANGED <<current_user, reputation, authVars, reports, powVars, reactor,
                   orphans>>
    /\ UNCHANGED <<pow_solved, invoked, contentVars, ctlVars, instVars, inputVars>>

\* the caller of login is released once auth_event is set and the loop can
\* run the polling coroutine
LoginRelease(t) ==
    /\ pc[t] = "login_wait"
    /\ event["login"]
    /\ reactor.at = "idle"
    /\ Return(t)
    /\ emitted' = {}
    /\ UNCHANGED <<coreVars, callVars, authVars, reports, powVars, reactor, orphans,
                   reconnecting, conn>>
    /\ UNCHANGED restVars

\* future.result(30) and the 30 s polling loop run out: "Login failed"
LoginTimeout(t) ==
    /\ pc[t] = "login_wait"
    /\ ~event["login"] \/ reactor.at # "idle"
    /\ Return(t)
    /\ emitted' = {}
    /\ UNCHANGED <<coreVars, callVars, authVars, reports, powVars, reactor, orphans,
                   reconnecting, conn>>
    /\ UNCHANGED restVars

\* the common tail of handle_upload, handle_dns_register and handle_report:
\* stash the payload, clear the reply channel, hand request_pow_challenge to
\* run_async (which refuses when not connected) and go on to wait
StartGated(t, a, ctx) ==
    /\ pending' = [pending EXCEPT ![a] = ctx]
    /\ event' = [event EXCEPT ![a] = FALSE]
    /\ result' = [result EXCEPT ![a] = "none"]
    /\ pc' = [pc EXCEPT ![t] = IF connected THEN "run_async" ELSE "wait"]
    /\ verb' = [verb EXCEPT ![t] = a]

Rejected == UNCHANGED <<callVars, pc, verb>>

\* fault: a file of exactly max_upload_size bytes is refused as well
HandleUploadBelow(t, p) ==
    /\ pc[t] = "idle"
    /\ IF current_user = None \/ len(p) >= max_upload_size
       THEN Rejected /\ UNCHANGED content_cache
       ELSE /\ content_cache' = save_content_to_storage(Sha256(p), p)
            /\ StartGated(t, "upload", <<p>>)
    /\ emitted' = {}
    /\ UNCHANGED <<coreVars, authVars, reports, powVars, reactor, orphans,
                   reconnecting, args, conn>>
    /\ UNCHANGED <<pow_solved, dropped, invoked, content_event, content_result, ctlVars, instVars, inputVars>>

\* handle_upload(args) for an existing file p: refused when nobody is logged
\* in or the file is larger than max_upload_size; otherwise the content is
\* stored locally and the proof of work requested
HandleUpload(t, p) ==
    /\ pc[t] = "idle"
    /\ IF current_user = None \/ len(p) > max_upload_size
       THEN Rejected /\ UNCHANGED content_cache
       ELSE /\ content_cache' = save_content_to_storage(Sha256(p), p)
            /\ StartGated(t, "upload", <<p>>)
    /\ emitted' = {}
    /\ UNCHANGED <<coreVars, authVars, reports, powVars, reactor, orphans,
                   reconnecting, args, conn>>
    /\ UNCHANGED <<pow_solved, dropped, invoked, content_event, content_result, ctlVars, instVars, inputVars>>

\* str.lower() of a domain argument
lower(d) == [k \in 1..Len(d) |-> IF d[k] = "A" THEN "a" ELSE d[k]]

\* re.match of ^[a-z0-9-]+(\.[a-z0-9-]+)*$ from position k of d; label
\* tells that the label being read has a character already
RECURSIVE Match(_, _, _)
Match(d, k, label) ==
    IF k > Len(d) THEN label
    ELSE IF d[k] \in LabelChars THEN Match(d, k + 1, TRUE)
    ELSE IF d[k] = "." /\ label THEN Match(d, k + 1, FALSE)
    ELSE FALSE

is_valid_domain(d) == Match(d, 1, FALSE)

\* handle_dns_register(args) with args[0] = domain: the domain is lowercased
\* and then validated
HandleDnsRegister(t, p) ==
    /\ pc[t] = "idle"
    /\ IF current_user = None \/ ~is_valid_domain(lower(domain))
       THEN Rejected
       ELSE StartGated(t, "dns", <<p>>)
    /\ emitted' = {}
    /\ UNCHANGED <<coreVars, authVars, reports, powVars, reactor, orphans,
                   reconnecting, args, conn>>
    /\ UNCHANGED restVars

\* fault: the reputation threshold is compared with <= instead of <
HandleReportStrict(t, h, ru) ==
    /\ pc[t] = "idle"
    /\ IF \/ current_user = None
          \/ ru = current_user
          \/ reputation <= MinReportReputation
          \/ reports[<<current_user, h>>] > 0
       THEN Rejected /\ UNCHANGED invoked
       ELSE /\ invoked' = invoked \cup {<<current_user, h>>}
            /\ StartGated(t, "report", <<h, ru>>)
    /\ emitted' = {}
    /\ UNCHANGED <<coreVars, authVars, reports, powVars, reactor, orphans,
                   reconnecting, args, conn>>
    /\ UNCHANGED <<pow_solved, dropped, contentVars, ctlVars, instVars, inputVars>>

HandleReport(t, h, ru) ==
    /\ pc[t] = "idle"
    /\ IF \/ current_user = None
          \/ ru = current_user
          \/ reputation < MinReportReputation
          \/ reports[<<current_user, h>>] > 0
       THEN Rejected /\ UNCHANGED invoked
       ELSE /\ invoked' = invoked \cup {<<current_user, h>>}
            /\ StartGated(t, "report", <<h, ru>>)
    /\ emitted' = {}
    /\ UNCHANGED <<coreVars, authVars, reports, powVars, reactor, orphans,
                   reconnecting, args, conn>>
    /\ UNCHANGED <<pow_solved, dropped, contentVars, ctlVars, instVars, inputVars>>

\* run_async: the loop runs the request_pow_challenge coroutine of caller t
CoRequestPow(t) ==
    /\ pc[t] = "run_async"
    /\ reactor.at = "idle"
    /\ emitted' = request_pow_challenge(verb[t])
    /\ conn' = Noted(conn, emitted')
    /\ pc' = [pc EXCEPT ![t] = "wait"]
    /\ UNCHANGED <<coreVars, callVars, authVars, reports, powVars, reactor, orphans,
                   reconnecting, verb, args>>
    /\ UNCHANGED restVars

\* run_async: future.result(60) runs out while the loop is blocked; the
\* coroutine stays scheduled on the loop
RunAsyncTimeout(t) ==
    /\ pc[t] = "run_async"
    /\ reactor.at # "idle"
    /\ orphans[verb[t]] < MaxOrphans
    /\ orphans' = [orphans EXCEPT ![verb[t]] = @ + 1]
    /\ pc' = [pc EXCEPT ![t] = "wait"]
    /\ emitted' = {}
    /\ UNCHANGED <<coreVars, callVars, authVars, reports, powVars, reactor,
                   reconnecting, verb, args, conn>>
    /\ UNCHANGED restVars

RunOrphan(a) ==
    /\ orphans[a] > 0
    /\ reactor.at = "idle"
    /\ emitted' = request_pow_challenge(a)
    /\ conn' = Noted(conn, emitted')
    /\ orphans' = [orphans EXCEPT ![a] = @ - 1]
    /\ UNCHANGED <<coreVars, callVars, authVars, reports, powVars, reactor,
                   reconnecting, threadVars>>
    /\ UNCHANGED restVars

\* <verb>_event.wait(300) returns True: the caller is released
Release(t) ==
    /\ pc[t] = "wait"
    /\ event[verb[t]]
    /\ Return(t)
    /\ emitted' = {}
    /\ UNCHANGED <<coreVars, callVars, authVars, reports, powVars, reactor, orphans,
                   reconnecting, conn>>
    /\ UNCHANGED restVars

\* <verb>_event.wait(300) runs out: the pending context is deleted
Timeout(t) ==
    /\ pc[t] = "wait"
    /\ ~event[verb[t]]
    /\ pending' = [pending EXCEPT ![verb[t]] = NoCtx]
    /\ Return(t)
    /\ emitted' = {}
    /\ UNCHANGED <<coreVars, event, result, authVars, reports, powVars, reactor,
                   orphans, reconnecting, conn>>
    /\ UNCHANGED restVars

\* handle_download of a content hash: the reply channel is cleared and
\* _request_content_by_hash handed to run_async, which refuses when not
\* connected; the handler then waits for content_event
HandleDownload(t, h) ==
    /\ pc[t] = "idle"
    /\ IF current_user = None
       THEN UNCHANGED <<content_event, content_result, threadVars>>
       ELSE /\ content_event' = FALSE
            /\ content_result' = NoContent
            /\ pc' = [pc EXCEPT ![t] = IF connected THEN "dl_call" ELSE "dl_wait"]
            /\ verb' = [verb EXCEPT ![t] = "download"]
            /\ args' = [args EXCEPT ![t] = h]
    /\ emitted' = {}
    /\ UNCHANGED <<coreVars, callVars, authVars, reports, powVars, reactor, orphans,
                   reconnecting, conn, pow_solved, dropped, invoked, content_cache,
                   ctlVars, instVars, inputVars>>

\* the loop runs _request_content_by_hash for caller t
CoRequestContent(t) ==
    /\ pc[t] = "dl_call"
    /\ reactor.at = "idle"
    /\ emitted' = IF connected THEN {Ev("request_content")} ELSE {}
    /\ pc' = [pc EXCEPT ![t] = "dl_wait"]
    /\ UNCHANGED <<coreVars, callVars, authVars, reports, powVars, reactor, orphans,
                   reconnecting, verb, args, conn, restVars>>

\* content_event.wait(30) returns True: the caller takes content_result, and
\* writes its bytes to the output file unless it is an error
DownloadRelease(t) ==
    /\ pc[t] = "dl_wait"
    /\ content_event
    /\ Return(t)
    /\ emitted' = {}
    /\ UNCHANGED <<coreVars, callVars, authVars, reports, powVars, reactor, orphans,
                   reconnecting, conn, restVars>>

\* content_event.wait(30) runs out: "Download timeout"
DownloadTimeout(t) ==
    /\ pc[t] = "dl_wait"
    /\ ~content_event
    /\ Return(t)
    /\ emitted' = {}
    /\ UNCHANGED <<coreVars, callVars, authVars, reports, powVars, reactor, orphans,
                   reconnecting, conn, restVars>>

\* handle_dns_resolve from the prompt: dns_event and dns_result, which it
\* shares with dns-reg, are cleared before the connection is looked at
HandleDnsResolve(t) ==
    /\ pc[t] = "idle"
    /\ IF current_user = None
       THEN UNCHANGED <<event, result, pc, verb>>
       ELSE /\ event' = [event EXCEPT !["dns"] = FALSE]
            /\ result' = [result EXCEPT !["dns"] = "none"]
            /\ IF connected
               THEN /\ pc' = [pc EXCEPT ![t] = "res_call"]
                    /\ verb' = [verb EXCEPT ![t] = "dnsres"]
               ELSE UNCHANGED <<pc, verb>>
    /\ emitted' = {}
    /\ UNCHANGED <<coreVars, pending, authVars, reports, powVars, reactor, orphans,
                   reconnecting, args, conn, restVars>>

\* the loop runs _resolve_dns for caller t
CoResolveDns(t) ==
    /\ pc[t] = "res_call"
    /\ reactor.at = "idle"
    /\ emitted' = IF connected THEN {Ev("resolve_dns")} ELSE {}
    /\ pc' = [pc EXCEPT ![t] = "res_wait"]
    /\ UNCHANGED <<coreVars, callVars, authVars, reports, powVars, reactor, orphans,
                   reconnecting, verb, args, conn, restVars>>

\* future.result(30) runs out while the loop is blocked: "DNS resolution
\* error", the handler returns
ResolveCallTimeout(t) ==
    /\ pc[t] = "res_call"
    /\ reactor.at # "idle"
    /\ Return(t)
    /\ emitted' = {}
    /\ UNCHANGED <<coreVars, callVars, authVars, reports, powVars, reactor, orphans,
                   reconnecting, conn, restVars>>

\* dns_event.wait(30) returns True: the caller of dns-res is released
ResolveRelease(t) ==
    /\ pc[t] = "res_wait"
    /\ event["dns"]
    /\ Return(t)
    /\ emitted' = {}
    /\ UNCHANGED <<coreVars, callVars, authVars, reports, powVars, reactor, orphans,
                   reconnecting, conn, restVars>>

\* dns_event.wait(30) runs out: "DNS resolution timeout"
ResolveTimeout(t) ==
    /\ pc[t] = "res_wait"
    /\ ~event["dns"]
    /\ Return(t)
    /\ emitted' = {}
    /\ UNCHANGED <<coreVars, callVars, authVars, reports, powVars, reactor, orphans,
                   reconnecting, conn, restVars>>

\* handle_logout: run_async(self.sio.disconnect()) follows connected = False,
\* so run_async refuses and the socket stays as it is
HandleLogout(t) ==
    /\ pc[t] = "idle"
    /\ IF current_user = None
       THEN UNCHANGED <<current_user, connected>>
       ELSE /\ current_user' = None
            /\ connected' = FALSE
    /\ emitted' = {}
    /\ UNCHANGED <<sio_connected, current_server, reputation, callVars, authVars,
                   reports, powVars, reactor, orphans, reconnecting, threadVars, conn>>
    /\ UNCHANGED restVars

(* ------------------------- socket event handlers ----------------------- *)
\* an inbound event is dispatched when the socket is up and the loop thread
\* is not blocked inside a handler
Dispatch == sio_connected /\ ~dropped /\ reactor.at = "idle"

\* disconnect(): the transport dropped; the handler starts the reconnect worker
Disconnect ==
    /\ sio_connected
    /\ reactor.at = "idle"
    /\ dropped' = FALSE
    /\ sio_connected' = FALSE
    /\ connected' = FALSE
    /\ reconnecting' = TRUE
    /\ emitted' = {}
    /\ UNCHANGED <<current_user, current_server, reputation, callVars, authVars,
                   reports, powVars, reactor, orphans, threadVars, conn>>
    /\ UNCHANGED <<pow_solved, invoked, contentVars, ctlVars, instVars, inputVars>>

\* the transport is lost while the loop thread is blocked inside a handler:
\* neither the socket's read loop nor disconnect() can run before the handler
\* returns, so connected and sio.connected stay as they are
Drop ==
    /\ sio_connected
    /\ ~dropped
    /\ reactor.at # "idle"
    /\ dropped' = TRUE
    /\ emitted' = {}
    /\ UNCHANGED <<coreVars, callVars, authVars, reports, powVars, reactor, orphans,
                   reconnecting, threadVars, conn, pow_solved, invoked, contentVars,
                   ctlVars, instVars, inputVars>>

\* the reconnect worker: after its sleep it schedules _reconnect when the
\* client is not connected and a server is known; _reconnect connects when the
\* socket is down, and a successful connect runs the connect() handler
Reconnect(ok) ==
    /\ reconnecting
    /\ reactor.at = "idle"
    /\ reconnecting' = FALSE
    /\ IF ~connected /\ current_server # None /\ ~sio_connected /\ ok
       THEN /\ sio_connected' = TRUE
            /\ connect
       ELSE /\ emitted' = {}
            /\ UNCHANGED <<sio_connected, connected, conn>>
    /\ UNCHANGED <<current_user, current_server, reputation, callVars, authVars,
                   reports, powVars, reactor, orphans, threadVars>>
    /\ UNCHANGED restVars

\* server_auth_challenge(data): sig is what the verification of the signature
\* under the advertised key k yields, or "incomplete" for a missing field
ServerAuthChallenge(k, sig) ==
    /\ Dispatch
    /\ CASE sig = "valid" ->
              /\ server_public_keys' = [server_public_keys EXCEPT ![current_server] = k]
              /\ client_auth_challenge' = TRUE
              /\ emitted' = {Ev("verify_server_auth_response")}
              /\ conn' = [conn EXCEPT !.verified = TRUE]
         [] sig = "invalid" ->
              /\ emitted' = {}
              /\ conn' = [conn EXCEPT !.sig_failed = TRUE]
              /\ UNCHANGED <<server_public_keys, client_auth_challenge>>
         [] sig = "incomplete" ->
              /\ emitted' = {}
              /\ UNCHANGED <<server_public_keys, client_auth_challenge, conn>>
    /\ UNCHANGED <<coreVars, callVars, banned, reports, powVars, reactor, orphans,
                   reconnecting, threadVars>>
    /\ UNCHANGED restVars

\* server_auth_result(data)
ServerAuthResult(success) ==
    /\ Dispatch
    /\ emitted' = IF success /\ pending["login"] # NoCtx
                  THEN request_pow_challenge("login")
                  ELSE {}
    /\ conn' = Noted([conn EXCEPT !.auth_ok = @ \/ success], emitted')
    /\ UNCHANGED <<coreVars, callVars, authVars, reports, powVars, reactor, orphans,
                   reconnecting, threadVars>>
    /\ UNCHANGED restVars

\* pow_challenge(data), up to the blocking wait_for_solution: kind is "error"
\* (an error without blocked_until), "blocked" (with it), "malformed" (a
\* challenge the solver thread cannot decode) or "ok".  solve_challenge starts
\* a session unless is_solving is still set; the handler then blocks the loop.
PowChallenge(a, ch, kind) ==
    /\ Dispatch
    /\ pending["report"] # NoCtx =>
           \A u \in 0..NumUsers : reports[<<u, pending["report"][1]>>] < MaxRows
    /\ IF kind \in {"error", "blocked"}
       THEN /\ banned' = (banned \/ kind = "blocked")
            /\ UNCHANGED <<powVars, reactor>>
       ELSE /\ IF is_solving
               THEN UNCHANGED powVars
               ELSE /\ is_solving' = TRUE
                    /\ solution_found' = FALSE
                    /\ nonce_solution' = None
                    /\ solver' = [at |-> IF kind = "ok" THEN "mining" ELSE "failing",
                                  challenge |-> ch]
            /\ reactor' = [at |-> "pow_wait", action |-> a, challenge |-> ch,
                           solicited |-> a \in conn.requested]
            /\ banned' = banned
    /\ emitted' = {}
    /\ UNCHANGED <<coreVars, callVars, server_public_keys, client_auth_challenge,
                   reports, orphans, reconnecting, threadVars, conn>>
    /\ UNCHANGED restVars

\* solve_thread: a nonce with enough leading zero bits is found; the nonce is
\* stored and the completion signal set
SolveFound ==
    /\ solver.at = "mining"
    /\ is_solving
    /\ nonce_solution' = solver.challenge
    /\ solution_found' = TRUE
    /\ solver' = [solver EXCEPT !.at = "found"]
    /\ emitted' = {}
    /\ UNCHANGED <<coreVars, callVars, authVars, reports, is_solving, reactor,
                   orphans, reconnecting, threadVars, conn>>
    /\ UNCHANGED restVars

\* solve_thread: the finally clause after a solution
SolveFinally ==
    /\ solver.at = "found"
    /\ is_solving' = FALSE
    /\ solver' = IdleSolver
    /\ emitted' = {}
    /\ UNCHANGED <<coreVars, callVars, authVars, reports, solution_found,
                   nonce_solution, reactor, orphans, reconnecting, threadVars, conn>>
    /\ UNCHANGED restVars

\* solve_thread: the 600 s ceiling ends the loop without a solution
SolveCeiling ==
    /\ solver.at = "mining"
    /\ is_solving' = FALSE
    /\ solver' = IdleSolver
    /\ emitted' = {}
    /\ UNCHANGED <<coreVars, callVars, authVars, reports, solution_found,
                   nonce_solution, reactor, orphans, reconnecting, threadVars, conn>>
    /\ UNCHANGED restVars

\* solve_thread: decoding the challenge raises; except logs, finally clears
SolveError ==
    /\ solver.at = "failing"
    /\ is_solving' = FALSE
    /\ solver' = IdleSolver
    /\ emitted' = {}
    /\ UNCHANGED <<coreVars, callVars, authVars, reports, solution_found,
                   nonce_solution, reactor, orphans, reconnecting, threadVars, conn>>
    /\ UNCHANGED restVars

\* send_authentication / _upload_file / _register_dns / _report_content:
\* what the gated send of action a emits
GatedSend(a) ==
    CASE a = "login" ->
            IF connected /\ client_auth_challenge THEN {GatedEv(a)} ELSE {}
      [] OTHER ->
            IF pending[a] # NoCtx /\ connected THEN {GatedEv(a)} ELSE {}

\* _report_content inserts its cli_reports row before it emits
ReportRow(a) ==
    IF a = "report" /\ pending[a] # NoCtx /\ connected
    THEN [reports EXCEPT ![<<current_user, pending[a][1]>>] = @ + 1]
    ELSE reports

\* fault: the solved proof of work is not counted in the statistics
PowSolvedUncounted ==
    /\ reactor.at = "pow_wait"
    /\ solution_found
    /\ emitted' = GatedSend(reactor.action)
    /\ reports' = ReportRow(reactor.action)
    /\ reactor' = IdleReactor
    /\ UNCHANGED <<coreVars, callVars, authVars, powVars, orphans, reconnecting,
                   threadVars, conn, restVars>>

\* pow_challenge, after wait_for_solution returned True
PowSolved ==
    /\ reactor.at = "pow_wait"
    /\ solution_found
    /\ pow_solved < MaxPowSolved
    /\ pow_solved' = pow_solved + 1
    /\ emitted' = GatedSend(reactor.action)
    /\ reports' = ReportRow(reactor.action)
    /\ reactor' = IdleReactor
    /\ UNCHANGED <<coreVars, callVars, authVars, powVars, orphans, reconnecting,
                   threadVars, conn>>
    /\ UNCHANGED <<dropped, invoked, contentVars, ctlVars, instVars, inputVars>>

\* pow_challenge, after wait_for_solution(600) ran out: "PoW solution failed".
\* The session's own ceiling is counted from start_time, set before the wait
\* began, so its thread has stopped by then.
PowWaitTimeout ==
    /\ reactor.at = "pow_wait"
    /\ ~solution_found
    /\ solver.at = "none"
    /\ reactor' = IdleReactor
    /\ emitted' = {}
    /\ UNCHANGED <<coreVars, callVars, authVars, reports, powVars, orphans,
                   reconnecting, threadVars, conn>>
    /\ UNCHANGED restVars

\* authentication_result(data)
AuthenticationResult(success, u, r) ==
    /\ Dispatch
    /\ IF success
       THEN /\ current_user' = u
            /\ reputation' = r
            /\ emitted' = IF connected
                          THEN {Ev("join_network"), Ev("sync_client_files")}
                          ELSE {}
       ELSE /\ emitted' = {}
            /\ UNCHANGED <<current_user, reputation>>
    /\ result' = [result EXCEPT !["login"] = IF success THEN "ok" ELSE "fail"]
    /\ event' = [event EXCEPT !["login"] = TRUE]
    /\ pending' = [pending EXCEPT !["login"] = NoCtx]
    /\ UNCHANGED <<connected, sio_connected, current_server, authVars, reports,
                   powVars, reactor, orphans, reconnecting, threadVars, conn>>
    /\ UNCHANGED restVars

\* publish_result / dns_result / report_result: store the reply, release the
\* caller, drop the pending context
TerminalResult(a, success) ==
    /\ Dispatch
    /\ result' = [result EXCEPT ![a] = IF success THEN "ok" ELSE "fail"]
    /\ event' = [event EXCEPT ![a] = TRUE]
    /\ pending' = [pending EXCEPT ![a] = NoCtx]
    /\ emitted' = {}
    /\ UNCHANGED <<coreVars, authVars, reports, powVars, reactor, orphans,
                   reconnecting, threadVars, conn>>
    /\ UNCHANGED restVars

PublishResult(success) == TerminalResult("upload", success)
DnsResult(success) == TerminalResult("dns", success)
ReportResult(success) == TerminalResult("report", success)

\* what content_response leaves in content_result
ErrorContent == [NoContent EXCEPT !.kind = "error"]
Content(h, b) == [kind |-> "content", content |-> b, content_hash |-> h,
                  integrity_ok |-> Sha256(b) = h]

\* fault: a payload that does not hash to the announced hash is answered
\* with an error result
ContentResponseStrict(h, b, kind) ==
    /\ Dispatch
    /\ IF kind = "ok" /\ Sha256(b) = h
       THEN /\ content_cache' = save_content_to_storage(h, b)
            /\ content_result' = Content(h, b)
       ELSE /\ content_result' = ErrorContent
            /\ UNCHANGED content_cache
    /\ content_event' = TRUE
    /\ emitted' = {}
    /\ UNCHANGED <<coreVars, callVars, authVars, reports, powVars, reactor, orphans,
                   reconnecting, threadVars, conn, pow_solved, dropped, invoked,
                   ctlVars, instVars, inputVars>>

\* content_response(data): kind is "error" (data carries error), "undecodable"
\* (the base64 payload does not decode) or "ok"; h is the announced
\* content_hash and b the decoded payload.  The payload is stored under h and
\* handed to the caller whether or not it hashes to h.
ContentResponse(h, b, kind) ==
    /\ Dispatch
    /\ IF kind = "ok"
       THEN /\ content_cache' = save_content_to_storage(h, b)
            /\ content_result' = Content(h, b)
       ELSE /\ content_result' = ErrorContent
            /\ UNCHANGED content_cache
    /\ content_event' = TRUE
    /\ emitted' = {}
    /\ UNCHANGED <<coreVars, callVars, authVars, reports, powVars, reactor, orphans,
                   reconnecting, threadVars, conn, pow_solved, dropped, invoked,
                   ctlVars, instVars, inputVars>>

\* dns_resolution(data): the reply to resolve_dns is stored in dns_result and
\* signalled on dns_event, the attributes dns_result() uses
DnsResolution(success) ==
    /\ Dispatch
    /\ result' = [result EXCEPT !["dns"] = IF success THEN "res_ok" ELSE "res_fail"]
    /\ event' = [event EXCEPT !["dns"] = TRUE]
    /\ emitted' = {}
    /\ UNCHANGED <<coreVars, pending, authVars, reports, powVars, reactor, orphans,
                   reconnecting, threadVars, conn, restVars>>

(* ----------------------- controller file monitor ----------------------- *)
\* self.is_monitoring: set by start_monitoring, cleared by stop_monitoring
is_monitoring == proc = "running"

\* the process of the instance exists, so its daemon threads run
Alive == proc \in {"constructed", "running", "stopping"}

\* the fields of the client core, which the controller machinery leaves alone
clientVars == <<coreVars, callVars, authVars, reports, powVars, reactor, orphans,
                reconnecting, threadVars, conn, pow_solved, dropped, invoked,
                contentVars, inputVars>>

\* the controller process writes command c into the controller file; bump
\* tells whether the write gives the file an mtime newer than last_modified.
\* A write in the mtime tick of the change before it needs a file that is
\* there: last_modified starts at 0, so a file that is created is newer.
ControllerWrite(c, bump) ==
    /\ bump \/ controller_file.kind # "missing"
    /\ controller_file' = File("cmd", c)
    /\ modified' = (modified \/ bump)
    /\ emitted' = {}
    /\ UNCHANGED <<coreVars, callVars, authVars, reports, powVars, reactor, orphans,
                   reconnecting, threadVars, conn, pow_solved, dropped, invoked,
                   contentVars, monitor, command_ids, workers,
                   instVars, inputVars>>

\* _monitor_loop: the file exists and its mtime is newer: last_modified is
\* set to it and command_lock taken
MonitorStat ==
    /\ is_monitoring
    /\ monitor.at = "poll"
    /\ controller_file.kind # "missing"
    /\ modified
    /\ modified' = FALSE
    /\ monitor' = [monitor EXCEPT !.at = "stat"]
    /\ emitted' = {}
    /\ UNCHANGED <<coreVars, callVars, authVars, reports, powVars, reactor, orphans,
                   reconnecting, threadVars, conn, pow_solved, dropped, invoked,
                   contentVars, controller_file, command_ids, workers,
                   instVars, inputVars>>

\* fault: content that starts with the logs directory is taken as a command
FreshAny(content) == content.kind # "empty"

\* content that is empty or starts with the logs directory is no command
Fresh(content) == content.kind # "empty" /\ content.kind # "log"

\* _monitor_loop: read_controller_file(); only a fresh command is taken up
MonitorRead ==
    /\ Alive
    /\ monitor.at = "stat"
    /\ monitor' = IF Fresh(controller_file)
                  THEN [monitor EXCEPT !.at = "got", !.content = controller_file]
                  ELSE IdleMonitor
    /\ emitted' = {}
    /\ UNCHANGED <<coreVars, callVars, authVars, reports, powVars, reactor, orphans,
                   reconnecting, threadVars, conn, pow_solved, dropped, invoked,
                   contentVars, controller_file, modified, command_ids, workers,
                   instVars, inputVars>>

\* _monitor_loop: a command id is allocated (uuid4) and the controller file
\* overwritten with the path of its log
MonitorWrite ==
    /\ Alive
    /\ monitor.at = "got"
    /\ command_ids < MaxCommands
    /\ command_ids' = command_ids + 1
    /\ controller_file' = File("log", command_ids')
    /\ modified' = TRUE
    /\ monitor' = [monitor EXCEPT !.at = "written", !.id = command_ids']
    /\ emitted' = {}
    /\ UNCHANGED <<coreVars, callVars, authVars, reports, powVars, reactor, orphans,
                   reconnecting, threadVars, conn, pow_solved, dropped, invoked,
                   contentVars, workers,
                   instVars, inputVars>>

\* _monitor_loop: the thread running _execute_command_with_log is started;
\* command_lock is released
MonitorSpawn ==
    /\ Alive
    /\ monitor.at = "written"
    /\ workers' = workers \cup {[id |-> monitor.id, content |-> monitor.content]}
    /\ monitor' = IdleMonitor
    /\ emitted' = {}
    /\ UNCHANGED <<coreVars, callVars, authVars, reports, powVars, reactor, orphans,
                   reconnecting, threadVars, conn, pow_solved, dropped, invoked,
                   contentVars, controller_file, modified, command_ids,
                   instVars, inputVars>>

(* ------------------------ controller command run ----------------------- *)
\* lines of captured output: n lines of text
Output(n) == [k \in 1..n |-> "text"]

\* _write_log_status(log_file, status, message): the file is rewritten with
\* the status line and, when the message is not empty, the message, which
\* takes one line of the file per line of its own
_write_log_status(status, message) == Log(<<status>> \o message)

\* _append_log_result(log_file, result): one more line at the end
_append_log_result(log, r) == Log(log.lines \o <<r>>)

\* command c names a verb of command_handlers; the last command does not
Known(c) == c # MaxCommands

\* how a handler call can go: it returns (having succeeded, or having printed
\* why it could not do its work), it raises, or it is handle_exit, which
\* raises SystemExit
Runs ==
    {[ends |-> "returns", did |-> "succeeded", output |-> n] : n \in 0..MaxLines}
    \cup {[ends |-> e, did |-> "failed", output |-> n] :
             e \in {"returns", "raises"}, n \in 1..MaxLines}
    \cup {[ends |-> "exits", did |-> "succeeded", output |-> 0]}

\* a cli_history row
Row(via, success) == [via |-> via, success |-> success]

\* _execute_controller_command(command_content, log_file) for a handler call
\* that goes as run: the result it returns and the history rows it inserts
_execute_controller_command(c, run) ==
    IF ~Known(c)
    THEN [at |-> "ran", success |-> FALSE, output |-> 1, did |-> "failed",
          rows |-> <<>>]
    ELSE CASE run.ends = "returns" ->
                [at |-> "ran", success |-> TRUE, output |-> run.output,
                 did |-> run.did, rows |-> <<Row("controller", 1)>>]
           [] run.ends = "raises" ->
                [at |-> "ran", success |-> FALSE, output |-> run.output,
                 did |-> run.did, rows |-> <<Row("controller", 0)>>]
           [] run.ends = "exits" ->
                [at |-> "died", success |-> FALSE, output |-> 0,
                 did |-> run.did, rows |-> <<>>]

\* the command thread i was started for
CommandOf(i) == (CHOOSE w \in workers : w.id = i).content.n

\* _execute_command_with_log: the thread starts and marks its log as running
WorkerBegin(i) ==
    /\ Alive
    /\ \E w \in workers : w.id = i
    /\ exec[i].at = "new"
    /\ logs' = [logs EXCEPT ![i] = _write_log_status("1", <<"started">>)]
    /\ exec' = [exec EXCEPT ![i].at = "started"]
    /\ emitted' = {}
    /\ UNCHANGED <<clientVars, ctlVars, proc, pid_file, history, sender,
                   invocations>>

\* _execute_command_with_log: _execute_controller_command runs the handler.
\* SystemExit passes through every except clause and ends the thread.
WorkerExecute(i, run) ==
    /\ Alive
    /\ exec[i].at = "started"
    /\ LET r == _execute_controller_command(CommandOf(i), run)
       IN /\ exec' = [exec EXCEPT ![i] = [at |-> r.at, success |-> r.success,
                                          output |-> r.output, did |-> r.did]]
          /\ history' = history \o r.rows
    /\ invocations' = invocations + 1
    /\ emitted' = {}
    /\ UNCHANGED <<clientVars, ctlVars, proc, pid_file, logs, sender>>

\* the status line _execute_command_with_log writes for a result
StatusOf(success) == IF success THEN "1" ELSE "0"

\* _execute_command_with_log: the log is rewritten with the final status
\* and the output
WorkerStatus(i) ==
    /\ Alive
    /\ exec[i].at = "ran"
    /\ logs' = [logs EXCEPT ![i] = _write_log_status(StatusOf(exec[i].success),
                                                     Output(exec[i].output))]
    /\ exec' = [exec EXCEPT ![i].at = "status"]
    /\ emitted' = {}
    /\ UNCHANGED <<clientVars, ctlVars, proc, pid_file, history, sender,
                   invocations>>

\* _execute_command_with_log: the terminal indicator is appended
WorkerAppend(i) ==
    /\ Alive
    /\ exec[i].at = "status"
    /\ logs' = [logs EXCEPT ![i] = _append_log_result(logs[i],
                                                      StatusOf(exec[i].success))]
    /\ exec' = [exec EXCEPT ![i].at = "done"]
    /\ emitted' = {}
    /\ UNCHANGED <<clientVars, ctlVars, proc, pid_file, history, sender,
                   invocations>>

(* ----------------------------- send_command ---------------------------- *)
\* send_command: the command is written into the controller file, in a new
\* mtime tick or, if the file is there, in the tick of the change before it
SenderWrite(c, bump) ==
    /\ sender.at = "idle"
    /\ sender' = [sender EXCEPT !.at = "sent"]
    /\ bump \/ controller_file.kind # "missing"
    /\ controller_file' = File("cmd", c)
    /\ modified' = (modified \/ bump)
    /\ emitted' = {}
    /\ UNCHANGED <<clientVars, monitor, command_ids, workers, proc, pid_file,
                   logs, exec, history, invocations>>

\* send_command: the controller file holds a path in the logs directory
SenderFound ==
    /\ sender.at = "sent"
    /\ controller_file.kind = "log"
    /\ sender' = [sender EXCEPT !.at = "found", !.log = controller_file.n]
    /\ emitted' = {}
    /\ UNCHANGED <<clientVars, ctlVars, proc, pid_file, logs, exec, history,
                   invocations>>

\* send_command: the log file must exist by now
SenderCheck ==
    /\ sender.at = "found"
    /\ sender' = IF logs[sender.log].exists
                 THEN [sender EXCEPT !.at = "polling"]
                 ELSE [sender EXCEPT !.at = "returned",
                                     !.ret = [ok |-> FALSE, message |-> "not found"]]
    /\ emitted' = {}
    /\ UNCHANGED <<clientVars, ctlVars, proc, pid_file, logs, exec, history,
                   invocations>>

\* _read_log_file(log_file): status, message and result are lines 1, 2 and
\* 3 of the file, "" for a line the file does not have; None for no line
Line(lines, k) == IF Len(lines) >= k THEN lines[k] ELSE ""
_read_log_file(log) ==
    IF log.exists /\ Len(log.lines) >= 1
    THEN [status |-> Line(log.lines, 1), message |-> Line(log.lines, 2),
          result |-> Line(log.lines, 3)]
    ELSE [status |-> "", message |-> "", result |-> ""]

\* the message send_command hands back: the message line, or its default
MessageOr(message) == IF message # "" THEN message ELSE "default"

\* send_command: a poll of the log that ends the wait
SenderReturn ==
    /\ sender.at = "polling"
    /\ LET d == _read_log_file(logs[sender.log])
       IN \/ /\ d.status = "1"
             /\ d.result # ""
             /\ sender' = [sender EXCEPT !.at = "returned",
                              !.ret = [ok |-> d.result = "1",
                                       message |-> MessageOr(d.message)]]
          \/ /\ d.status = "0"
             /\ sender' = [sender EXCEPT !.at = "returned",
                              !.ret = [ok |-> FALSE,
                                       message |-> MessageOr(d.message)]]
    /\ emitted' = {}
    /\ UNCHANGED <<clientVars, ctlVars, proc, pid_file, logs, exec, history,
                   invocations>>

\* send_command: 300 seconds have passed in one of its two waits
SenderTimeout ==
    /\ sender.at \in {"sent", "polling"}
    /\ sender' = [sender EXCEPT !.at = "returned",
                                !.ret = [ok |-> FALSE, message |-> "timeout"]]
    /\ emitted' = {}
    /\ UNCHANGED <<clientVars, ctlVars, proc, pid_file, logs, exec, history,
                   invocations>>

(* ------------------------ the interactive instance --------------------- *)
\* cleanup_old_files(): a PID file that does not hold a number ends the
\* routine in its outer except clause; a PID file that holds the PID of this
\* process makes it send SIGTERM to itself, for which no handler is
\* installed; otherwise the PID file, the controller file and every log are
\* removed.  after is where the main thread is when the routine returns.
cleanup_old_files(after) ==
    CASE pid_file = "garbled" ->
            /\ proc' = after
            /\ UNCHANGED <<pid_file, controller_file, modified, logs>>
      [] pid_file = "self" ->
            /\ proc' = "killed"
            /\ UNCHANGED <<pid_file, controller_file, modified, logs>>
      [] OTHER ->
            /\ proc' = after
            /\ pid_file' = "missing"
            /\ controller_file' = File("missing", None)
            /\ modified' = FALSE
            /\ logs' = [i \in Commands |-> NoLog]

\* ControllerFileMonitor.__init__, called from HPSCommandLine.__init__
Construct ==
    /\ proc = "new"
    /\ cleanup_old_files("constructed")
    /\ emitted' = {}
    /\ UNCHANGED <<clientVars, monitor, command_ids, workers, exec, history,
                   sender, invocations>>

\* run_interactive: start_monitoring() writes the PID file and starts the
\* monitor thread
StartMonitoring ==
    /\ proc = "constructed"
    /\ proc' = "running"
    /\ pid_file' = "self"
    /\ emitted' = {}
    /\ UNCHANGED <<clientVars, ctlVars, logs, exec, history, sender, invocations>>

\* run_interactive: a command typed at the prompt, other than exit and quit.
\* A verb with a handler gets a history row, with the success flag telling
\* whether the handler returned; an unknown verb gets an error message.
PromptCommand(known, run) ==
    /\ proc = "running"
    /\ invocations < MaxHistory
    /\ run.ends # "exits"
    /\ history' = IF known
                  THEN Append(history, Row("prompt", IF run.ends = "returns" THEN 1 ELSE 0))
                  ELSE history
    /\ invocations' = invocations + 1
    /\ emitted' = {}
    /\ UNCHANGED <<clientVars, ctlVars, proc, pid_file, logs, exec, sender>>

\* run_interactive: exit or quit: handle_exit ends in sys.exit(0), and the
\* SystemExit leaves run_interactive through no except clause
PromptExit ==
    /\ proc = "running"
    /\ proc' = "exited"
    /\ invocations' = invocations + 1
    /\ emitted' = {}
    /\ UNCHANGED <<clientVars, ctlVars, pid_file, logs, exec, history, sender>>

\* run_interactive: end of input leaves the loop; stop_monitoring() clears
\* is_monitoring and waits for the monitor thread
PromptEOF ==
    /\ proc = "running"
    /\ proc' = "stopping"
    /\ emitted' = {}
    /\ UNCHANGED <<clientVars, ctlVars, pid_file, logs, exec, history, sender,
                   invocations>>

\* stop_monitoring(): the monitor thread has ended, cleanup_old_files() runs
StopCleanup ==
    /\ proc = "stopping"
    /\ monitor.at = "poll"
    /\ cleanup_old_files("stopped")
    /\ emitted' = {}
    /\ UNCHANGED <<clientVars, monitor, command_ids, workers, exec, history,
                   sender, invocations>>

(* ------------------------------ solve_thread --------------------------- *)
\* the number of binary digits of byte b
RECURSIVE BitLength(_)
BitLength(b) == IF b = 0 THEN 0 ELSE 1 + BitLength(b \div 2)

\* leading_zero_bits(h): 8 for every leading zero byte, and the leading
\* zeros of the first byte that is not zero
RECURSIVE leading_zero_bits(_)
leading_zero_bits(h) ==
    IF h = <<>> THEN 0
    ELSE IF Head(h) = 0 THEN 8 + leading_zero_bits(Tail(h))
    ELSE 8 - BitLength(Head(h))

\* solve_thread is in its loop: nothing reported, time limit not reached
Mining == mined = NotMined /\ nonce \in Nonces

\* fault: a nonce that fails is followed by the one after the next
MineTrySkip ==
    /\ Mining
    /\ leading_zero_bits(digests[nonce]) < target_bits
    /\ nonce' = nonce + 2
    /\ emitted' = {}
    /\ UNCHANGED <<coreVars, callVars, authVars, reports, powVars, reactor, orphans,
                   reconnecting, threadVars, conn, pow_solved, dropped, invoked,
                   contentVars, ctlVars, instVars, domain, digests, target_bits,
                   mined, miner, reconVars, requests, connection_state>>

\* solve_thread: the digest of the nonce has too few leading zero bits; the
\* next nonce is tried
MineTry ==
    /\ Mining
    /\ leading_zero_bits(digests[nonce]) < target_bits
    /\ nonce' = nonce + 1
    /\ emitted' = {}
    /\ UNCHANGED <<coreVars, callVars, authVars, reports, powVars, reactor, orphans,
                   reconnecting, threadVars, conn, pow_solved, dropped, invoked,
                   contentVars, ctlVars, instVars, domain, digests, target_bits,
                   mined, miner, reconVars, requests, connection_state>>

\* solve_thread: the digest has at least target_bits leading zero bits; the
\* nonce is reported
MineFound ==
    /\ Mining
    /\ leading_zero_bits(digests[nonce]) >= target_bits
    /\ mined' = nonce
    /\ emitted' = {}
    /\ UNCHANGED <<coreVars, callVars, authVars, reports, powVars, reactor, orphans,
                   reconnecting, threadVars, conn, pow_solved, dropped, invoked,
                   contentVars, ctlVars, instVars, domain, digests, target_bits,
                   nonce, miner, reconVars, requests, connection_state>>

\* solve_thread: 600 seconds have passed; the loop is left with nothing
\* reported
MineCeiling ==
    /\ Mining
    /\ nonce' = MaxNonce + 1
    /\ emitted' = {}
    /\ UNCHANGED <<coreVars, callVars, authVars, reports, powVars, reactor, orphans,
                   reconnecting, threadVars, conn, pow_solved, dropped, invoked,
                   contentVars, ctlVars, instVars, domain, digests, target_bits,
                   mined, miner, reconVars, requests, connection_state>>

(* ------------------- solve_thread and stop_solving --------------------- *)
\* solve_thread looks at the cancel flag after every CancelCheck nonces
CancelCheck == 1000

\* what a step of the solver leaves alone
offMiner == <<coreVars, callVars, authVars, reports, nonce_solution, solver, reactor,
              orphans, reconnecting, threadVars, conn, pow_solved, dropped, invoked,
              contentVars, ctlVars, instVars, domain, digests, target_bits, reconVars,
              requests, connection_state>>

\* one more nonce was hashed; counted once stop_solving has been called
Hashed == [miner EXCEPT !.since = IF miner.stopped THEN @ + 1 ELSE @]

\* solve_challenge(...): returns at once while is_solving; otherwise sets the
\* flag, clears the signal and the nonce and starts solve_thread.  A session
\* begun while a stopped thread is still alive is left out.
SolveChallenge ==
    /\ ~is_solving
    /\ miner.at = "none"
    /\ is_solving' = TRUE
    /\ solution_found' = FALSE
    /\ mined' = NotMined
    /\ nonce' = 0
    /\ miner' = [at |-> "loop", stopped |-> FALSE, since |-> 0]
    /\ emitted' = {}
    /\ UNCHANGED offMiner

\* stop_solving(): the cancel flag
StopSolving ==
    /\ is_solving' = FALSE
    /\ miner' = [miner EXCEPT !.stopped = @ \/ miner.at # "none"]
    /\ emitted' = {}
    /\ UNCHANGED <<offMiner, solution_found, nonce, mined>>

\* solve_thread: the loop condition, while self.is_solving and the time
\* limit has not passed
MinerLoop ==
    /\ miner.at = "loop"
    /\ nonce \in Nonces
    /\ miner' = [miner EXCEPT !.at = IF is_solving THEN "body" ELSE "exit"]
    /\ emitted' = {}
    /\ UNCHANGED <<offMiner, is_solving, solution_found, nonce, mined>>

\* solve_thread: the loop condition after 600 seconds
MinerCeiling ==
    /\ miner.at = "loop"
    /\ miner' = [miner EXCEPT !.at = "exit"]
    /\ emitted' = {}
    /\ UNCHANGED <<offMiner, is_solving, solution_found, nonce, mined>>

\* solve_thread: the digest has too few leading zero bits; nonce += 1, and
\* after every CancelCheck nonces the loop is left if the flag is down
MinerTry ==
    /\ miner.at = "body"
    /\ leading_zero_bits(digests[nonce]) < target_bits
    /\ nonce' = nonce + 1
    /\ miner' = [Hashed EXCEPT !.at = IF (nonce + 1) % CancelCheck = 0 /\ ~is_solving
                                      THEN "exit" ELSE "loop"]
    /\ emitted' = {}
    /\ UNCHANGED <<offMiner, is_solving, solution_found, mined>>

\* solve_thread: the digest has enough leading zero bits; the nonce is
\* stored, the signal set and the loop left
MinerFound ==
    /\ miner.at = "body"
    /\ leading_zero_bits(digests[nonce]) >= target_bits
    /\ mined' = nonce
    /\ solution_found' = TRUE
    /\ miner' = [Hashed EXCEPT !.at = "exit"]
    /\ emitted' = {}
    /\ UNCHANGED <<offMiner, is_solving, nonce>>

\* solve_thread: finally, self.is_solving = False
MinerFinally ==
    /\ miner.at = "exit"
    /\ is_solving' = FALSE
    /\ miner' = [miner EXCEPT !.at = "none"]
    /\ emitted' = {}
    /\ UNCHANGED <<offMiner, solution_found, nonce, mined>>

(* --------------------------- reconnect worker -------------------------- *)
\* self.auto_reconnect, set in __init__ and never changed
auto_reconnect == TRUE

\* what the reconnect worker, its coroutine and exit leave alone
offReconnect == <<current_user, current_server, reputation, callVars, authVars,
                  reports, powVars, reactor, orphans, threadVars, pow_solved, dropped,
                  invoked, contentVars, ctlVars, pid_file, logs, exec, history, sender,
                  invocations, domain, mineVars, requests, connection_state>>

\* reconnect_thread.is_alive() of worker w
is_alive(w) == reconnect_thread[w] # "none"

\* start_reconnect_thread(): nothing while a worker is alive, otherwise a
\* new worker is started
start_reconnect_thread ==
    IF \E w \in Reconnects : is_alive(w)
    THEN UNCHANGED reconnect_thread
    ELSE \E w \in Reconnects :
            reconnect_thread' = [reconnect_thread EXCEPT ![w] = "sleep"]

\* disconnect(): the socket went down; a worker is asked for when
\* auto_reconnect is set and the process is running
DisconnectEvent ==
    /\ proc # "stopped"
    /\ sio_connected
    /\ reactor.at = "idle"
    /\ sio_connected' = FALSE
    /\ connected' = FALSE
    /\ IF auto_reconnect /\ is_running
       THEN start_reconnect_thread
       ELSE UNCHANGED reconnect_thread
    /\ reconnecting' = \E w \in Reconnects : reconnect_thread'[w] # "none"
    /\ emitted' = {}
    /\ UNCHANGED <<offReconnect, conn, proc, is_running, reconnect_queue>>

\* reconnect(): after time.sleep(2), if not self.is_running: return
ReconnectWake(w) ==
    /\ proc # "stopped"
    /\ reconnect_thread[w] = "sleep"
    /\ reconnect_thread' = [reconnect_thread EXCEPT
                               ![w] = IF is_running THEN "check" ELSE "none"]
    /\ reconnecting' = \E v \in Reconnects : reconnect_thread'[v] # "none"
    /\ emitted' = {}
    /\ UNCHANGED <<offReconnect, connected, sio_connected, conn, proc, is_running,
                   reconnect_queue>>

\* reconnect(): under reconnect_lock, the test of connected, current_server
\* and is_running
ReconnectCheck(w) ==
    /\ proc # "stopped"
    /\ reconnect_thread[w] = "check"
    /\ reconnect_thread' =
           [reconnect_thread EXCEPT
               ![w] = IF ~connected /\ current_server # None /\ is_running
                      THEN "schedule" ELSE "none"]
    /\ reconnecting' = \E v \in Reconnects : reconnect_thread'[v] # "none"
    /\ emitted' = {}
    /\ UNCHANGED <<offReconnect, connected, sio_connected, conn, proc, is_running,
                   reconnect_queue>>

\* reconnect(): run_coroutine_threadsafe(self._reconnect(), self.loop); the
\* worker ends
ReconnectSchedule(w) ==
    /\ proc # "stopped"
    /\ reconnect_thread[w] = "schedule"
    /\ reconnect_queue' = reconnect_queue + 1
    /\ reconnect_thread' = [reconnect_thread EXCEPT ![w] = "none"]
    /\ reconnecting' = \E v \in Reconnects : reconnect_thread'[v] # "none"
    /\ emitted' = {}
    /\ UNCHANGED <<offReconnect, connected, sio_connected, conn, proc, is_running>>

\* _reconnect() on the loop: sio.connect(current_server) when the socket is
\* down; ok is whether the server answers, and then connect() runs
CoReconnect(ok) ==
    /\ proc # "stopped"
    /\ reconnect_queue > 0
    /\ reactor.at = "idle"
    /\ reconnect_queue' = reconnect_queue - 1
    /\ IF ~sio_connected /\ ok
       THEN /\ sio_connected' = TRUE
            /\ connect
       ELSE /\ emitted' = {}
            /\ UNCHANGED <<sio_connected, connected, conn>>
    /\ UNCHANGED <<offReconnect, reconnecting, proc, is_running, reconnect_thread>>

\* handle_exit(args), up to save_session_state: is_running = False, and the
\* socket is disconnected when connected is set, which runs disconnect().
\* At the prompt sys.exit(0) follows on the main thread; through the
\* controller SystemExit ends the command's thread only.
HandleExit(via) ==
    /\ proc \notin {"stopped", "exiting"}
    /\ is_running' = FALSE
    /\ IF connected
       THEN /\ reactor.at = "idle"
            /\ sio_connected' = FALSE
            /\ connected' = FALSE
       ELSE UNCHANGED <<sio_connected, connected>>
    /\ proc' = IF via = "prompt" THEN "exiting" ELSE proc
    /\ emitted' = {}
    /\ UNCHANGED <<offReconnect, reconnecting, conn, reconnect_thread, reconnect_queue>>

\* sys.exit(0) on the main thread: the process and its daemon threads end
ExitProcess ==
    /\ proc = "exiting"
    /\ proc' = "stopped"
    /\ emitted' = {}
    /\ UNCHANGED <<offReconnect, connected, sio_connected, reconnecting, conn, reconVars>>

(* ------------------- download and the server's replies ----------------- *)
\* what a request and its reply leave alone
offReply == <<coreVars, callVars, authVars, reports, powVars, reactor, orphans,
              reconnecting, conn, pow_solved, dropped, invoked, ctlVars, instVars,
              domain, mineVars, reconVars, connection_state>>

\* the loop runs _request_content_by_hash for caller t; the request_content
\* it emits reaches the server
RequestContent(t) ==
    /\ pc[t] = "dl_call"
    /\ reactor.at = "idle"
    /\ emitted' = IF connected THEN {Ev("request_content")} ELSE {}
    /\ requests' = IF connected THEN requests \cup {args[t]} ELSE requests
    /\ pc' = [pc EXCEPT ![t] = "dl_wait"]
    /\ UNCHANGED <<offReply, verb, args, contentVars>>

\* content_response(data) as the server's answer to the request for hash h:
\* the bytes that hash to h, or an error
ContentReply(h, b, kind) ==
    /\ Dispatch
    /\ h \in requests
    /\ Sha256(b) = h
    /\ requests' = requests \ {h}
    /\ IF kind = "ok"
       THEN /\ content_cache' = save_content_to_storage(h, b)
            /\ content_result' = Content(h, b)
       ELSE /\ content_result' = ErrorContent
            /\ UNCHANGED content_cache
    /\ content_event' = TRUE
    /\ emitted' = {}
    /\ UNCHANGED <<offReply, threadVars>>

(* --------------------- dns-res through the controller ------------------ *)
\* get_connection_state(): the fields of the host a dns-res is given
get_connection_state ==
    [connected |-> connected, current_server |-> current_server,
     current_user |-> current_user]

\* what a dns-res of the controller leaves alone up to its request
offState == <<sio_connected, reputation, pending, authVars, reports, powVars,
              reactor, orphans, reconnecting, args, conn, pow_solved, dropped,
              invoked, contentVars, ctlVars, instVars, domain, mineVars, reconVars,
              requests>>

\* _execute_controller_command for dns-res on command thread t: the snapshot
\* is taken and handle_dns_resolve entered with it; the snapshot is a dict,
\* so the login check passes; dns_event and dns_result are cleared
ControllerDnsResolve(t) ==
    /\ pc[t] = "idle"
    /\ connection_state' = [connection_state EXCEPT ![t] = get_connection_state]
    /\ event' = [event EXCEPT !["dns"] = FALSE]
    /\ result' = [result EXCEPT !["dns"] = "none"]
    /\ pc' = [pc EXCEPT ![t] = "res_state"]
    /\ verb' = [verb EXCEPT ![t] = "dnsres"]
    /\ emitted' = {}
    /\ UNCHANGED <<offState, connected, current_server, current_user>>

\* handle_dns_resolve: a snapshot that says connected is written into the
\* host's fields; then "Not connected to server" unless connected
ApplyConnectionState(t) ==
    /\ pc[t] = "res_state"
    /\ IF connection_state[t].connected
       THEN /\ connected' = TRUE
            /\ current_server' = connection_state[t].current_server
            /\ current_user' = connection_state[t].current_user
       ELSE UNCHANGED <<connected, current_server, current_user>>
    /\ IF connected'
       THEN /\ pc' = [pc EXCEPT ![t] = "res_call"]
            /\ UNCHANGED verb
       ELSE /\ pc' = [pc EXCEPT ![t] = "idle"]
            /\ verb' = [verb EXCEPT ![t] = "none"]
    /\ connection_state' = [connection_state EXCEPT ![t] = NoState]
    /\ emitted' = {}
    /\ UNCHANGED <<offState, event, result>>

(* ---------------------------- specifications --------------------------- *)
\* Session life cycle: login and logout from the caller threads, the
\* handshake, the login proof of work and the transport, from the state the
\* constructor leaves.
Next ==
    \/ \E t \in Threads, s \in Servers : HandleLogin(t, s)
    \/ \E t \in Threads, ok \in BOOLEAN : CoConnectAndLogin(t, ok)
    \/ \E t \in Threads : LoginRelease(t)
    \/ \E t \in Threads : LoginTimeout(t)
    \/ \E t \in Threads : HandleLogout(t)
    \/ Disconnect
    \/ \E ok \in BOOLEAN : Reconnect(ok)
    \/ \E k \in Keys, sig \in {"valid", "invalid", "incomplete"} :
          ServerAuthChallenge(k, sig)
    \/ \E success \in BOOLEAN : ServerAuthResult(success)
    \/ \E ch \in Challenges, kind \in {"ok", "malformed"} :
          PowChallenge("login", ch, kind)
    \/ SolveFound
    \/ SolveFinally
    \/ SolveCeiling
    \/ SolveError
    \/ PowSolved
    \/ PowWaitTimeout
    \/ \E success \in BOOLEAN, u \in Users :
          AuthenticationResult(success, u, MinReportReputation)

Spec == Init /\ [][Next]_vars

\* The state a completed login leaves (handshake done, login PoW for
\* challenge 1 solved, authentication_result{success} handled, caller
\* released), for user 1 on server 1.
LoggedInSession ==
    /\ connected = TRUE
    /\ sio_connected = TRUE
    /\ current_user = 1
    /\ current_server = 1
    /\ reputation = MinReportReputation
    /\ pending = [a \in Actions |-> NoCtx]
    /\ event = [a \in Actions |-> a = "login"]
    /\ result = [a \in Actions |-> IF a = "login" THEN "ok" ELSE "none"]
    /\ server_public_keys = [s \in Servers |-> IF s = 1 THEN 1 ELSE None]
    /\ client_auth_challenge = TRUE
    /\ banned = FALSE
    /\ reports = [r \in (0..NumUsers) \X Payloads |-> 0]
    /\ is_solving = FALSE
    /\ solution_found = TRUE
    /\ nonce_solution = 1
    /\ solver = IdleSolver
    /\ reactor = IdleReactor
    /\ orphans = [a \in RunAsyncVerbs |-> 0]
    /\ reconnecting = FALSE
    /\ pc = [t \in Threads |-> "idle"]
    /\ verb = [t \in Threads |-> "none"]
    /\ args = [t \in Threads |-> None]
    /\ emitted = {}
    /\ conn = [verified |-> TRUE, auth_ok |-> TRUE, sig_failed |-> FALSE,
               requested |-> {"login"}]

InitLoggedIn ==
    /\ LoggedInSession
    /\ pow_solved = 1
    /\ InitRest

\* Uploads of a logged-in user from the caller threads, their proof of work
\* and their terminal event.
NextGate ==
    \/ \E t \in Threads, p \in Payloads : HandleUpload(t, p)
    \/ \E t \in Threads : CoRequestPow(t)
    \/ \E t \in Threads : RunAsyncTimeout(t)
    \/ RunOrphan("upload")
    \/ \E t \in Threads : Release(t)
    \/ \E t \in Threads : Timeout(t)
    \/ \E ch \in Challenges, kind \in {"ok", "malformed", "error", "blocked"} :
          PowChallenge("upload", ch, kind)
    \/ SolveFound
    \/ SolveFinally
    \/ SolveCeiling
    \/ SolveError
    \/ PowSolved
    \/ PowWaitTimeout
    \/ \E success \in BOOLEAN : PublishResult(success)

SpecGate == InitLoggedIn /\ [][NextGate]_vars

\* An upload of a logged-in user whose transport may be lost at any time,
\* also while its proof of work is mined.
NextDrop ==
    \/ \E t \in Threads, p \in Payloads : HandleUpload(t, p)
    \/ \E t \in Threads : CoRequestPow(t)
    \/ \E t \in Threads : RunAsyncTimeout(t)
    \/ RunOrphan("upload")
    \/ \E t \in Threads : Release(t)
    \/ \E t \in Threads : Timeout(t)
    \/ \E ch \in Challenges : PowChallenge("upload", ch, "ok")
    \/ SolveFound
    \/ SolveFinally
    \/ SolveCeiling
    \/ PowSolved
    \/ PowWaitTimeout
    \/ \E success \in BOOLEAN : PublishResult(success)
    \/ Drop
    \/ Disconnect
    \/ \E ok \in BOOLEAN : Reconnect(ok)

SpecDrop == InitLoggedIn /\ [][NextDrop]_vars

\* Name registration and name resolution of a logged-in user, from both
\* caller threads.
NextDns ==
    \/ \E t \in Threads, p \in Payloads : HandleDnsRegister(t, p)
    \/ \E t \in Threads : CoRequestPow(t)
    \/ \E t \in Threads : RunAsyncTimeout(t)
    \/ RunOrphan("dns")
    \/ \E t \in Threads : Release(t)
    \/ \E t \in Threads : Timeout(t)
    \/ \E t \in Threads : HandleDnsResolve(t)
    \/ \E t \in Threads : CoResolveDns(t)
    \/ \E t \in Threads : ResolveCallTimeout(t)
    \/ \E t \in Threads : ResolveRelease(t)
    \/ \E t \in Threads : ResolveTimeout(t)
    \/ \E ch \in Challenges : PowChallenge("dns", ch, "ok")
    \/ SolveFound
    \/ SolveFinally
    \/ SolveCeiling
    \/ PowSolved
    \/ PowWaitTimeout
    \/ \E success \in BOOLEAN : DnsResult(success)
    \/ \E success \in BOOLEAN : DnsResolution(success)

SpecDns == InitLoggedIn /\ [][NextDns]_vars

\* Reports of a logged-in user from both caller threads; the server may
\* announce another reputation for that user with an authentication_result.
NextReport ==
    \/ \E t \in Threads, h \in Payloads, ru \in Users : HandleReport(t, h, ru)
    \/ \E t \in Threads : CoRequestPow(t)
    \/ \E t \in Threads : RunAsyncTimeout(t)
    \/ RunOrphan("report")
    \/ \E t \in Threads : Release(t)
    \/ \E t \in Threads : Timeout(t)
    \/ \E ch \in Challenges, kind \in {"ok", "error"} :
          PowChallenge("report", ch, kind)
    \/ SolveFound
    \/ SolveFinally
    \/ SolveCeiling
    \/ PowSolved
    \/ PowWaitTimeout
    \/ \E success \in BOOLEAN : ReportResult(success)
    \/ \E r \in Reputations : AuthenticationResult(TRUE, current_user, r)

SpecReport == InitLoggedIn /\ [][NextReport]_vars

\* The content cache of a logged-in user: uploads and downloads from both
\* caller threads and the replies of the server.
NextContent ==
    \/ \E t \in Threads, p \in Payloads : HandleUpload(t, p)
    \/ \E t \in Threads : CoRequestPow(t)
    \/ \E t \in Threads : Release(t)
    \/ \E t \in Threads : Timeout(t)
    \/ \E success \in BOOLEAN : PublishResult(success)
    \/ \E t \in Threads, h \in Hashes : HandleDownload(t, h)
    \/ \E t \in Threads : CoRequestContent(t)
    \/ \E t \in Threads : DownloadRelease(t)
    \/ \E t \in Threads : DownloadTimeout(t)
    \/ \E h \in Hashes, b \in Payloads, kind \in {"ok", "error", "undecodable"} :
          ContentResponse(h, b, kind)

SpecContent == InitLoggedIn /\ [][NextContent]_vars

\* The controller file monitor and the controller process that writes
\* commands into the file.
NextController ==
    \/ StartMonitoring
    \/ \E c \in Commands, bump \in BOOLEAN : ControllerWrite(c, bump)
    \/ MonitorStat
    \/ MonitorRead
    \/ MonitorWrite
    \/ MonitorSpawn

SpecController == Init /\ [][NextController]_vars

\* The monitor and the command threads it starts, with the controller
\* process writing commands.
NextCommand ==
    \/ NextController
    \/ \E i \in Commands : WorkerBegin(i)
    \/ \E i \in Commands, run \in Runs : WorkerExecute(i, run)
    \/ \E i \in Commands : WorkerStatus(i)
    \/ \E i \in Commands : WorkerAppend(i)

SpecCommand == Init /\ [][NextCommand]_vars

\* One send_command call against the monitor and the command threads.
NextSender ==
    \/ StartMonitoring
    \/ \E c \in Commands, bump \in BOOLEAN : SenderWrite(c, bump)
    \/ SenderFound
    \/ SenderCheck
    \/ SenderReturn
    \/ SenderTimeout
    \/ MonitorStat
    \/ MonitorRead
    \/ MonitorWrite
    \/ MonitorSpawn
    \/ \E i \in Commands : WorkerBegin(i)
    \/ \E i \in Commands, run \in Runs : WorkerExecute(i, run)
    \/ \E i \in Commands : WorkerStatus(i)
    \/ \E i \in Commands : WorkerAppend(i)

SpecSender == Init /\ [][NextSender]_vars

\* what an earlier instance can have left in the profile directory
PidFiles == {"missing", "dead", "live", "self", "garbled"}
ControllerFiles ==
    {File("missing", None)} \cup {File("cmd", c) : c \in Commands}
    \cup {File("log", i) : i \in Commands}
LeftLogs == {NoLog, Log(<<"1", "text", "1">>)}

\* The state main() starts from: the session fields of a fresh profile, and
\* the controller directory as an earlier instance left it.  The monitor of
\* the new process has last_modified = 0, so a controller file that exists
\* is newer.
InitStartup ==
    /\ InitSession
    /\ pow_solved = 0
    /\ dropped = FALSE
    /\ invoked = {}
    /\ content_cache = [h \in Hashes |-> None]
    /\ content_event = FALSE
    /\ content_result = NoContent
    /\ controller_file \in ControllerFiles
    /\ modified = (controller_file.kind # "missing")
    /\ monitor = IdleMonitor
    /\ command_ids = 0
    /\ workers = {}
    /\ proc = "new"
    /\ pid_file \in PidFiles
    /\ logs \in {[i \in Commands |-> l] : l \in LeftLogs}
    /\ exec = [i \in Commands |-> NewExec]
    /\ history = <<>>
    /\ sender = IdleSender
    /\ invocations = 0
    /\ InitMiner
    /\ InitRecon
    /\ requests = {}
    /\ connection_state = [t \in Threads |-> NoState]
    /\ domain = <<"a">>

\* The life of the interactive instance: construction, the prompt loop, the
\* controller commands and the ways out of run_interactive.
NextInstance ==
    \/ Construct
    \/ \E known \in BOOLEAN, run \in Runs : PromptCommand(known, run)
    \/ PromptExit
    \/ PromptEOF
    \/ StopCleanup
    \/ NextCommand

SpecInstance == InitStartup /\ [][NextInstance]_vars

\* dns-reg of a logged-in user with any domain argument, up to the request
\* for the proof of work.
InitDomain ==
    /\ LoggedInSession
    /\ pow_solved = 1
    /\ InitOther
    /\ InitMiner
    /\ InitRecon
    /\ requests = {}
    /\ connection_state = [t \in Threads |-> NoState]
    /\ domain \in Domains

NextDomain ==
    \/ \E t \in Threads, p \in Payloads : HandleDnsRegister(t, p)
    \/ \E t \in Threads : CoRequestPow(t)
    \/ \E t \in Threads : Timeout(t)

SpecDomain == InitDomain /\ [][NextDomain]_vars

\* Uploads of a logged-in user, of files within and past the size limit,
\* with the request for the proof of work and the terminal event.
NextUpload ==
    \/ \E t \in Threads, p \in Files : HandleUpload(t, p)
    \/ \E t \in Threads : CoRequestPow(t)
    \/ \E t \in Threads : Release(t)
    \/ \E t \in Threads : Timeout(t)
    \/ \E success \in BOOLEAN : PublishResult(success)

SpecUpload == InitLoggedIn /\ [][NextUpload]_vars

\* solve_thread on any challenge: any digest for each nonce, any target.
InitSolve ==
    /\ InitSession
    /\ pow_solved = 0
    /\ InitOther
    /\ domain = <<"a">>
    /\ digests \in [Nonces -> Digests]
    /\ target_bits \in TargetBits
    /\ nonce = 0
    /\ mined = NotMined
    /\ miner = IdleMiner
    /\ InitRecon
    /\ requests = {}
    /\ connection_state = [t \in Threads |-> NoState]

NextSolve ==
    \/ MineTry
    \/ MineFound
    \/ MineCeiling

SpecSolve == InitSolve /\ [][NextSolve]_vars

\* A mining session and its cancellation, on any challenge.
NextCancel ==
    \/ SolveChallenge
    \/ StopSolving
    \/ MinerLoop
    \/ MinerCeiling
    \/ MinerTry
    \/ MinerFound
    \/ MinerFinally

SpecCancel == InitSolve /\ [][NextCancel]_vars

\* Loss of the socket, the reconnect worker and exit, for a logged-in user.
NextReconnect ==
    \/ DisconnectEvent
    \/ \E w \in Reconnects : ReconnectWake(w)
    \/ \E w \in Reconnects : ReconnectCheck(w)
    \/ \E w \in Reconnects : ReconnectSchedule(w)
    \/ \E ok \in BOOLEAN : CoReconnect(ok)
    \/ \E via \in {"prompt", "controller"} : HandleExit(via)
    \/ ExitProcess
    \/ \E t \in Threads : proc \notin {"stopped", "exiting"} /\ HandleLogout(t)

SpecReconnect == InitLoggedIn /\ [][NextReconnect]_vars

\* An upload with its proof of work on one caller thread and a download on
\* the other, with the replies of the server to both.
NextInterleave ==
    \/ \E t \in Threads, p \in Payloads : HandleUpload(t, p)
    \/ \E t \in Threads : CoRequestPow(t)
    \/ \E t \in Threads : Release(t)
    \/ \E t \in Threads : Timeout(t)
    \/ \E ch \in Challenges : PowChallenge("upload", ch, "ok")
    \/ SolveFound
    \/ SolveFinally
    \/ SolveCeiling
    \/ PowSolved
    \/ PowWaitTimeout
    \/ \E success \in BOOLEAN : PublishResult(success)
    \/ \E t \in Threads, h \in Hashes : HandleDownload(t, h)
    \/ \E t \in Threads : CoRequestContent(t)
    \/ \E t \in Threads : DownloadRelease(t)
    \/ \E t \in Threads : DownloadTimeout(t)
    \/ \E h \in Hashes, b \in Payloads, kind \in {"ok", "error"} :
          ContentResponse(h, b, kind)

SpecInterleave == InitLoggedIn /\ [][NextInterleave]_vars

\* Downloads from both caller threads against a server that answers every
\* request_content once, with the content asked for or an error.
NextReply ==
    \/ \E t \in Threads, h \in Hashes : HandleDownload(t, h)
    \/ \E t \in Threads : RequestContent(t)
    \/ \E t \in Threads : DownloadRelease(t)
    \/ \E t \in Threads : DownloadTimeout(t)
    \/ \E h \in Hashes, b \in Payloads, kind \in {"ok", "error"} :
          ContentReply(h, b, kind)

SpecReply == InitLoggedIn /\ [][NextReply]_vars

\* dns-res commands of the controller on the command threads of a logged-in
\* host, with logout from those threads and the loss of the socket.
NextState ==
    \/ \E t \in Threads : ControllerDnsResolve(t)
    \/ \E t \in Threads : ApplyConnectionState(t)
    \/ \E t \in Threads : CoResolveDns(t)
    \/ \E t \in Threads : ResolveRelease(t)
    \/ \E t \in Threads : ResolveTimeout(t)
    \/ \E success \in BOOLEAN : DnsResolution(success)
    \/ \E t \in Threads : HandleLogout(t)
    \/ Disconnect
    \/ \E ok \in BOOLEAN : Reconnect(ok)

SpecState == InitLoggedIn /\ [][NextState]_vars

(* ------------------------------- claims -------------------------------- *)
\* an invocation of the gated verb a is in flight: a caller is inside its
\* handler, the pending context is set and the terminal event has not arrived
InFlight(a) ==
    /\ pending[a] # NoCtx
    /\ ~event[a]
    /\ \E t \in Threads : verb[t] = a /\ pc[t] # "idle"

\* caller t is blocked waiting for the terminal event of verb a
Blocked(t, a) == verb[t] = a /\ pc[t] \in {"wait", "login_wait"}

\* the step starts an invocation of verb a on caller t
Accepts(t, a) == pc[t] = "idle" /\ pc'[t] # "idle" /\ verb'[t] = a

\* the step emits request_pow_challenge for action a
RequestsPow(a) ==
    \E e \in emitted' : e.name = "request_pow_challenge" /\ e.action = a

\* C1: while an invocation of a gated verb is in flight, no step starts a
\* second invocation of that verb (which would stash its own pending context
\* and go on to request a PoW challenge): the second invocation is rejected.
C1_SecondInvocationRejected ==
    [][\A t \in Threads, a \in Actions : InFlight(a) => ~Accepts(t, a)]_vars

\* C2: every gated event that is emitted answers a pow_challenge that was
\* received after request_pow_challenge for that action had been emitted on
\* the connection, and carries a nonce that was mined for that challenge.
C2_GatedOrder ==
    \A e \in emitted :
        e.action \in Actions /\ e.name = GatedEventOf(e.action) =>
            /\ e.solicited
            /\ e.nonce # None
            /\ e.nonce = e.challenge

\* C3: once a server_auth_challenge failed signature verification on a
\* connection, the client emits nothing more on that connection.
C3_AbortOnInvalidSignature == conn.sig_failed => emitted = {}

\* C4: authenticate is emitted only on a connection on which the server's
\* challenge signature was verified and server_auth_result reported success.
C4_AuthenticateOnlyAfterHandshake ==
    "authenticate" \in Names(emitted) => conn.verified /\ conn.auth_ok

\* C5: a server public key, once recorded for an address, is never replaced.
C5_ServerKeyPinned ==
    [][\A s \in Servers :
          server_public_keys[s] # None =>
              server_public_keys'[s] = server_public_keys[s]]_vars

\* C6: a pow_challenge carrying error that arrives while a caller is blocked
\* on a gated verb discards that verb's pending context and releases the
\* caller.
C6_ChallengeErrorReleasesCaller ==
    [][\A a \in Actions, ch \in Challenges, kind \in {"error", "blocked"},
          t \in Threads :
          PowChallenge(a, ch, kind) /\ Blocked(t, a) /\ InFlight(a) =>
              /\ pending'[a] = NoCtx
              /\ event'[a] \/ pc'[t] = "idle"]_vars

\* C7: a blocking handler whose wait times out returns with the pending
\* context of its action cleared.
C7_TimeoutClearsPending ==
    [][\A t \in Threads :
          (\E a \in Actions : Blocked(t, a)) /\ ~event[verb[t]] /\ pc'[t] = "idle" =>
              pending'[verb[t]] = NoCtx]_vars

\* C8: the handler that waits for the solution is never left waiting for a
\* mining session that has stopped without signalling.
C8_SessionEndSignalled ==
    reactor.at = "pow_wait" => solution_found \/ solver.at # "none"

\* C9: after an authentication_result with success false no login context is
\* pending, current_user is unchanged and the client is disconnected.
C9_AuthFailureDisconnects ==
    [][\A u \in Users, r \in Reputations :
          AuthenticationResult(FALSE, u, r) =>
              /\ pending'["login"] = NoCtx
              /\ current_user' = current_user
              /\ ~connected']_vars

\* C10: server_auth_result makes the client request a login PoW exactly when
\* the result is a success and a login is pending.
C10_LoginPowIffPending ==
    [][\A success \in BOOLEAN :
          ServerAuthResult(success) =>
              (RequestsPow("login") <=> success /\ pending["login"] # NoCtx)]_vars

\* C11: authentication_result{success, username u, reputation r} leaves
\* current_user = u and reputation = r and does not touch the pow_solved
\* counter; the counter changes only when the pow_challenge handler gets its
\* solution, and then by exactly 1: so a login run with one solved PoW ends
\* with current_user = u, reputation = r and pow_solved one higher.
C11_LoginFinalState ==
    [][/\ \A u \in Users, r \in Reputations :
             AuthenticationResult(TRUE, u, r) =>
                 /\ current_user' = u
                 /\ reputation' = r
                 /\ pow_solved' = pow_solved
       /\ reactor.at = "pow_wait" /\ reactor'.at = "idle" /\ solution_found =>
             pow_solved' = pow_solved + 1
       /\ pow_solved' # pow_solved =>
             /\ reactor.at = "pow_wait" /\ solution_found
             /\ pow_solved' = pow_solved + 1]_vars

\* C11 witness: a login run has just ended: handshake verified and accepted,
\* the login PoW requested and solved once, authentication_result{success}
\* handled with the announced reputation
C11_LoginCompleted ==
    /\ conn.verified /\ conn.auth_ok /\ "login" \in conn.requested
    /\ "join_network" \in Names(emitted)
    /\ result["login"] = "ok"
    /\ current_user = NumUsers
    /\ reputation = MinReportReputation
    /\ pow_solved = 1

\* C12: a logout command of a logged-in user, and the disconnect handler,
\* leave current_user and current_server both unset.
C12_LogoutAndDisconnectClear ==
    [][\/ current_user # None /\ \E t \in Threads : HandleLogout(t)
       \/ Disconnect
       => current_user' = None /\ current_server' = None]_vars

\* C13: a transport loss during mining leaves the mining session alone, and
\* when the pow_challenge handler then gets its solution the gated send emits
\* nothing, because it finds connected false.
C13_NoSendAfterDrop ==
    [][/\ Drop => UNCHANGED powVars
       /\ dropped /\ reactor.at = "pow_wait" /\ reactor'.at = "idle" =>
             emitted' = {}]_vars

\* C14: a caller blocked in dns-reg is completed only by a dns_result, and a
\* caller blocked in dns-res only by a dns_resolution: the reply that releases
\* it and that it reads as its result is of its own terminal event type.
C14_ReleasedByOwnEvent ==
    [][\A t \in Threads :
          event["dns"] /\ pc'[t] = "idle" =>
              /\ Blocked(t, "dns") => result["dns"] \in {"ok", "fail"}
              /\ pc[t] = "res_wait" => result["dns"] \in {"res_ok", "res_fail"}]_vars

\* C15: the reports table never holds more than one row for a pair of
\* reporter and content hash.
C15_OneRowPerReport == \A r \in DOMAIN reports : reports[r] <= 1

\* C16: when an earlier report invocation of the current user for content
\* hash h has ended (no caller is inside report any more), a further report
\* invocation for h is rejected.
C16_SecondReportRejected ==
    [][\A t \in Threads, h \in Payloads, ru \in Users :
          /\ HandleReport(t, h, ru)
          /\ <<current_user, h>> \in invoked
          /\ \A t2 \in Threads : verb[t2] # "report"
          => ~Accepts(t, "report")]_vars

\* C17: a report invocation is accepted only if a user is logged in, the
\* reported user is another user and the reputation is at least 20; with
\* these and no earlier row for the content it is accepted; a rejected one
\* emits nothing and stores no context; request_pow_challenge for report goes
\* out only for an accepted invocation, and does go out when connected;
\* report_content goes out only with the context an accepted invocation stored.
C17_ReportPreconditions ==
    [][/\ \A t \in Threads, h \in Payloads, ru \in Users :
             HandleReport(t, h, ru) =>
                 /\ Accepts(t, "report") =>
                       /\ current_user # None
                       /\ ru # current_user
                       /\ reputation >= MinReportReputation
                 /\ ( /\ current_user # None
                      /\ ru # current_user
                      /\ reputation >= MinReportReputation
                      /\ reports[<<current_user, h>>] = 0 ) => Accepts(t, "report")
                 /\ ~Accepts(t, "report") => emitted' = {} /\ UNCHANGED pending
       /\ RequestsPow("report") =>
             \/ \E t \in Threads : pc[t] = "run_async" /\ verb[t] = "report"
             \/ orphans["report"] > 0
       /\ \A t \in Threads :
             CoRequestPow(t) /\ verb[t] = "report" /\ connected =>
                 RequestsPow("report")
       /\ "report_content" \in Names(emitted') => pending["report"] # NoCtx
       /\ pending'["report"] # NoCtx =>
             \E u \in Users : <<u, pending'["report"][1]>> \in invoked']_vars

\* C17 witness: with the reputation exactly at the threshold a report was
\* accepted and its request_pow_challenge has just gone out
C17_ReportIssuedAtThreshold ==
    /\ reputation = MinReportReputation
    /\ \E e \in emitted : e.name = "request_pow_challenge" /\ e.action = "report"
    /\ \E t \in Threads : pc[t] = "wait" /\ verb[t] = "report"
    /\ pending["report"] # NoCtx

\* C18: every row of the content cache holds bytes whose SHA-256 is the
\* row's content_hash.
C18_CacheIntegrity ==
    \A h \in Hashes : content_cache[h] # None => Sha256(content_cache[h]) = h

\* C19: a content_response whose payload b does not hash to the announced
\* hash h sets content_event and leaves in content_result the bytes b with
\* integrity_ok false, not an error, so that a caller blocked in download is
\* released with them; the release itself leaves the result as it is.
C19_MismatchStillReturned ==
    [][/\ \A h \in Hashes, b \in Payloads :
             ContentResponse(h, b, "ok") /\ Sha256(b) # h =>
                 /\ content_event'
                 /\ content_result'.kind = "content"
                 /\ content_result'.content = b
                 /\ content_result'.content_hash = h
                 /\ ~content_result'.integrity_ok
       /\ \A t \in Threads :
             DownloadRelease(t) => content_event /\ UNCHANGED content_result]_vars

\* C19 witness: a download caller is blocked and the reply that will release
\* it carries bytes that do not hash to the announced hash
C19_MismatchDelivered ==
    /\ \E t \in Threads : pc[t] = "dl_wait" /\ verb[t] = "download"
    /\ content_event
    /\ content_result.kind = "content"
    /\ Sha256(content_result.content) # content_result.content_hash
    /\ ~content_result.integrity_ok

\* C20: the thread of a command is started only after the monitor has
\* overwritten the controller file with the log path of a command id not
\* given to any earlier command, and what the thread executes is a command,
\* never content that starts with the logs directory.
C20_OverwriteBeforeHandler ==
    [][/\ monitor.at = "got" /\ monitor' # monitor =>
             /\ monitor'.at = "written"
             /\ controller_file' = File("log", monitor'.id)
             /\ \A w \in workers : w.id # monitor'.id
       /\ \A w \in workers' \ workers :
             /\ monitor.at = "written"
             /\ w.id = monitor.id
             /\ w.content = monitor.content
       /\ \A w \in workers' : w.content.kind = "cmd"]_vars

\* C20 witness: the threads of two commands have been started, and the
\* controller file holds the log path of the later one
C20_CommandsAccepted ==
    /\ Cardinality({w.id : w \in workers}) = MaxCommands
    /\ controller_file = File("log", MaxCommands)

\* C21: the log of a finished controller command holds the final status on
\* line 1, the message, which may be empty, on line 2 and the terminal
\* indicator on line 3, whether the output is empty, one line or several.
C21_FinishedLogLayout ==
    \A i \in Commands :
        exec[i].at = "done" =>
            /\ Line(logs[i].lines, 1) = StatusOf(exec[i].success)
            /\ exec[i].output = 0 => Line(logs[i].lines, 2) = ""
            /\ Line(logs[i].lines, 3) = StatusOf(exec[i].success)

\* C22: send_command comes back from its wait for the log only after the
\* command thread has appended the terminal indicator, and with True
\* exactly when the command was executed successfully.
C22_ReturnAfterIndicator ==
    [][sender.at # "returned" /\ sender'.at = "returned"
          /\ sender'.ret.message # "timeout" =>
             /\ exec[sender'.log].at = "done"
             /\ sender'.ret.ok = exec[sender'.log].success]_vars

\* C23: a controller command whose handler did not do its work ends with
\* final status 0 and terminal indicator 0, and final status 1 is written
\* only for a command that succeeded.
C23_FailureStatusZero ==
    \A i \in Commands :
        exec[i].at = "done" =>
            /\ exec[i].did = "failed" =>
                  /\ Line(logs[i].lines, 1) = "0"
                  /\ logs[i].lines[Len(logs[i].lines)] = "0"
            /\ Line(logs[i].lines, 1) = "1" => exec[i].did = "succeeded"

\* C24: at most one controller command handler is executing at any moment.
C24_OneHandlerAtATime ==
    Cardinality({i \in Commands : exec[i].at = "started"}) <= 1

\* C25: the exit command and end of input both stop the watcher and leave
\* no controller file, no PID file and no log behind.
C25_CleanShutdown ==
    [][PromptExit \/ StopCleanup =>
          /\ proc' = "stopped"
          /\ controller_file' = File("missing", None)
          /\ pid_file' = "missing"
          /\ \A i \in Commands : ~logs'[i].exists]_vars

\* C26: when the constructor of the monitor has returned, the controller
\* file and the logs of the earlier instance are gone, so that no command
\* from before the start is executed, and start_monitoring leaves the PID of
\* this process in the PID file.
C26_StartupCleans ==
    [][/\ Construct /\ proc' = "constructed" =>
             /\ controller_file' = File("missing", None)
             /\ \A i \in Commands : ~logs'[i].exists
       /\ StartMonitoring => pid_file' = "self"]_vars

\* C27: every command invocation, from the prompt or through the
\* controller, unknown verbs and exit included, has appended exactly one
\* history row.
C27_OneRowPerInvocation == Len(history) = invocations

\* C28: dns-reg of a logged-in user goes on to request the proof of work
\* exactly when the domain argument matches ^[a-z0-9-]+(\.[a-z0-9-]+)*$; a
\* domain with an underscore or an uppercase letter is refused and nothing
\* is requested for it.
C28_DomainAcceptedIffValid ==
    [][\A t \in Threads, p \in Payloads :
          HandleDnsRegister(t, p) /\ current_user # None =>
             /\ Accepts(t, "dns") <=> is_valid_domain(domain)
             /\ ~is_valid_domain(domain) => UNCHANGED pending]_vars

\* C29: upload takes a file of exactly max_upload_size bytes and refuses one
\* of one byte more; a refused upload stores nothing, sets no pending
\* context and leaves no caller on the way to request_pow_challenge, which
\* is emitted only for a caller whose upload was taken.
C29_UploadSizeLimit ==
    [][/\ \A t \in Threads, p \in Files :
             HandleUpload(t, p) /\ current_user # None =>
                /\ len(p) <= max_upload_size =>
                      /\ Accepts(t, "upload")
                      /\ pending'["upload"] = <<p>>
                      /\ content_cache'[Sha256(p)] = p
                /\ len(p) > max_upload_size =>
                      /\ UNCHANGED <<content_cache, pending, pc>>
                      /\ emitted' = {}
       /\ RequestsPow("upload") =>
             \E t \in Threads : pc[t] = "run_async" /\ verb[t] = "upload"]_vars

\* C29 witness: the file of exactly max_upload_size bytes has been taken: it
\* is stored and pending, and its caller is on the way to the request
C29_LimitFileAccepted ==
    /\ len(NumPayloads) = max_upload_size
    /\ pending["upload"] = <<NumPayloads>>
    /\ content_cache[Sha256(NumPayloads)] = NumPayloads
    /\ \E t \in Threads : verb[t] = "upload" /\ pc[t] = "run_async"

\* the number a digest is, read as a big-endian integer
RECURSIVE Value(_)
Value(h) == IF h = <<>> THEN 0 ELSE Head(h) * 256 ^ (Len(h) - 1) + Value(Tail(h))

\* digest h has at least k leading zero bits
ZeroBits(h, k) == Value(h) < 2 ^ (8 * DigestLen - k)

\* C30: solve_thread tries the nonces 0, 1, 2, ... in this order, and the
\* nonce it reports is the smallest one whose digest has at least
\* target_bits leading zero bits; with target_bits = 0 that is nonce 0.
C30_SmallestNonce ==
    /\ mined # NotMined =>
          /\ ZeroBits(digests[mined], target_bits)
          /\ \A n \in 0..(mined - 1) : ~ZeroBits(digests[n], target_bits)
          /\ target_bits = 0 => mined = 0
    /\ Mining => \A n \in 0..(nonce - 1) : ~ZeroBits(digests[n], target_bits)

\* C30 witness: the last nonce was reported for a target that takes whole
\* zero bytes and more, after the nonces before it had failed
C30_LaterNonceReported ==
    /\ mined = MaxNonce
    /\ target_bits = 9
    /\ ZeroBits(digests[0], 8)
    /\ ~ZeroBits(digests[1], 9)

\* C31: once stop_solving has been called during a mining session, the
\* session reports no nonce, hashes at most CancelCheck further nonces, and
\* its thread ends with is_solving false.
C31_CancelStopsMiner ==
    [][miner.stopped /\ miner.at # "none" =>
          /\ mined' = mined
          /\ miner'.since <= CancelCheck
          /\ miner'.at = "none" => ~is_solving']_vars

\* C32: at most one reconnect worker is alive; a reconnect is scheduled, and
\* the socket is connected by _reconnect, only while auto_reconnect is set,
\* is_running is true and connected is false: never once exit has cleared
\* is_running.
C32_ReconnectGuarded ==
    [][/\ Cardinality({w \in Reconnects : reconnect_thread'[w] # "none"}) <= 1
       /\ (\E w \in Reconnects : ReconnectSchedule(w)) =>
              auto_reconnect /\ is_running /\ ~connected
       /\ (\E ok \in BOOLEAN : CoReconnect(ok)) /\ ~sio_connected =>
              auto_reconnect /\ is_running /\ ~connected]_vars

\* C33: the nonce sent with a gated event solves the challenge of the
\* pow_challenge event whose handler sends it
C33_NonceSolvesItsChallenge ==
    [][PowSolved /\ emitted' # {} => nonce_solution = reactor.challenge]_vars

\* C34: while a proof of work is being mined for an upload, a
\* content_response on the connected socket can be dispatched, so that the
\* caller waiting in download is released before the mining has finished
C34_DispatchedWhileMining ==
    \A t \in Threads :
        /\ pc[t] = "dl_wait"
        /\ reactor.at = "pow_wait"
        /\ solver.at = "mining"
        /\ sio_connected
        /\ ~dropped
        => ENABLED (\E h \in Hashes, b \in Payloads : ContentResponse(h, b, "ok"))

\* C35: the content a download returns is the reply to its own request: a
\* caller released with content, while no other caller is inside download,
\* got the content of the hash it asked for and not the reply to an earlier
\* invocation that has timed out
C35_OwnReply ==
    [][\A t \in Threads :
          /\ DownloadRelease(t)
          /\ content_result.kind = "content"
          /\ \A u \in Threads \ {t} : verb[u] # "download"
          => content_result.content_hash = args[t]]_vars

\* C36: while the watcher is running, a command in the controller file is
\* not replaced before the watcher has taken it up, the watcher replaces it
\* only with the log path of the command it has read, and a command that
\* waits in the file is one the next poll will notice: no command is lost
C36_NoCommandLost ==
    [][/\ is_monitoring /\ controller_file.kind = "cmd"
          /\ controller_file' # controller_file =>
              /\ monitor.at = "got"
              /\ monitor.content = controller_file
              /\ controller_file'.kind = "log"
       /\ is_monitoring' /\ controller_file'.kind = "cmd" /\ monitor'.at = "poll" =>
              modified']_vars

\* C37: a logout of a logged-in user leaves the socket disconnected, with
\* connected and the socket's own state both false
C37_LogoutDisconnects ==
    [][\A t \in Threads :
          HandleLogout(t) /\ current_user # None =>
              ~connected' /\ ~sio_connected']_vars

\* C38: a dns-res of the controller, when it applies its snapshot of the
\* connection state, leaves connected, current_user and current_server of
\* the host as they are at that moment
C38_SnapshotKeepsSession ==
    [][\A t \in Threads :
          ApplyConnectionState(t) =>
              UNCHANGED <<connected, current_user, current_server>>]_vars

\* C39: while the client is banned (a pow_challenge error with
\* blocked_until has set banned_until and that time has not come), no
\* request_pow_challenge and no gated event goes out
C39_BannedRejectsLocally ==
    [][banned =>
          Names(emitted') \cap
              ({"request_pow_challenge"} \cup {GatedEventOf(a) : a \in Actions}) = {}]_vars

====
